---- MODULE Spec2Model ----
(***************************************************************************)
(* Model of the Parametric Face Subdivider                                 *)
(* (src/Parametric Subdivider/ParametricSubdivider.py): the feature object *)
(* SubdivisionPattern, its execute method, the five build*Pattern          *)
(* generators and the helper clip_line_to_face.                            *)
(*                                                                         *)
(* Numbers.  The program computes with floats; the model computes with     *)
(* exact rationals <<n, d>> (d > 0, lowest terms), lengths in millimetres  *)
(* as in the program.  Points are pairs <<x, y>> of rationals in the local *)
(* frame of the face (origin at the centre of mass; the local z is 0       *)
(* throughout, the placement localPl is an isometry and is left implicit). *)
(* seen is the history of the runs of execute (what each run was given and *)
(* what it stored); loop is the state of one pattern-sequence loop run     *)
(* pass by pass.                                                           *)
(* Angles are integers in degrees, restricted to angles whose sine and     *)
(* cosine are rational (multiples of 90 and the 3-4-5 angles, written 53   *)
(* and 37 for atan(4/3) and atan(3/4)).                                    *)
(***************************************************************************)
EXTENDS Integers, Sequences, FiniteSets, TLC

VARIABLES obj, face, kernel, Shape, console, ran, outcome, pre, arg, writes, seen, loop,
          frame, editor, dialog

vars == <<obj, face, kernel, Shape, console, ran, outcome, pre, arg, writes, seen, loop,
          frame, editor, dialog>>

\* bounds of the model
MaxDivisions == 4

MaxRepeat == 3

MaxSeqLen == 2

MaxWrites == 2

\* more lines than any pattern loop of the model builds
MaxLines == 12

\* edges of a frame's Base left by the Edges filter
MaxEdges == 2

(***************************************************************************)
(* Exact rational arithmetic (Python float arithmetic, without rounding).  *)
(***************************************************************************)
Abs(n) == IF n < 0 THEN -n ELSE n

RECURSIVE GCD(_, _)
GCD(a, b) == IF b = 0 THEN a ELSE GCD(b, a % b)

Norm(n, d) ==
    LET g == GCD(Abs(n), Abs(d))
        s == IF d < 0 THEN -1 ELSE 1
    IN  <<(s * n) \div g, (s * d) \div g>>

R(n) == <<n, 1>>

RAdd(a, b) ==
    LET l == (a[2] \div GCD(a[2], b[2])) * b[2]
    IN  Norm(a[1] * (l \div a[2]) + b[1] * (l \div b[2]), l)

RNeg(a) == <<-a[1], a[2]>>

RSub(a, b) == RAdd(a, RNeg(b))

RMul(a, b) ==
    LET g1 == GCD(Abs(a[1]), b[2])
        g2 == GCD(Abs(b[1]), a[2])
    IN  IF a[1] = 0 \/ b[1] = 0 THEN <<0, 1>>
        ELSE <<(a[1] \div g1) * (b[1] \div g2), (a[2] \div g2) * (b[2] \div g1)>>

\* a / b for b # 0
RDiv(a, b) == RMul(a, Norm(b[2], b[1]))

RAbs(a) == <<Abs(a[1]), a[2]>>

RLt(a, b) == RSub(a, b)[1] < 0

RLe(a, b) == RSub(a, b)[1] <= 0

RMin(a, b) == IF RLe(a, b) THEN a ELSE b

RMax(a, b) == IF RLe(a, b) THEN b ELSE a

\* math.floor
RFloor(a) == a[1] \div a[2]

\* int(): truncation towards zero
RTrunc(a) == IF a[1] >= 0 THEN a[1] \div a[2] ELSE -((-a[1]) \div a[2])

\* a > 1 / k for a positive integer k (a float literal such as 1e-6)
GtInv(a, k) == a[1] > a[2] \div k

RECURSIVE SeqMin(_)
SeqMin(s) == IF Len(s) = 1 THEN s[1] ELSE RMin(s[1], SeqMin(Tail(s)))

RECURSIVE SeqMax(_)
SeqMax(s) == IF Len(s) = 1 THEN s[1] ELSE RMax(s[1], SeqMax(Tail(s)))

(***************************************************************************)
(* Points, rotations and the geometry kernel (Part).  The kernel is an     *)
(* external collaborator; it is modelled at the call sites of the program. *)
(***************************************************************************)
Pt(x, y) == <<x, y>>

\* FreeCAD.Rotation(Vector(0,0,1), deg): cosine and sine of the angle
Cos(deg) ==
    CASE deg = 0 -> R(1) [] deg = 90 -> R(0) [] deg = 180 -> R(-1) [] deg = -90 -> R(0)
      [] deg = 53 -> <<3, 5>> [] deg = -53 -> <<3, 5>>
      [] deg = 37 -> <<4, 5>> [] deg = -37 -> <<4, 5>>

Sin(deg) ==
    CASE deg = 0 -> R(0) [] deg = 90 -> R(1) [] deg = 180 -> R(0) [] deg = -90 -> R(-1)
      [] deg = 53 -> <<4, 5>> [] deg = -53 -> <<-4, 5>>
      [] deg = 37 -> <<3, 5>> [] deg = -37 -> <<-3, 5>>

\* rot_local.multVec(p - center_local) + center_local
RotateAbout(p, c, deg) ==
    LET dx == RSub(p[1], c[1])
        dy == RSub(p[2], c[2])
    IN  Pt(RAdd(RSub(RMul(Cos(deg), dx), RMul(Sin(deg), dy)), c[1]),
           RAdd(RAdd(RMul(Sin(deg), dx), RMul(Cos(deg), dy)), c[2]))

\* Part.makeLine(p, q) raises when the two points coincide
MakeLineRaises(p, q) == p = q

Cross(a, b) == RSub(RMul(a[1], b[2]), RMul(a[2], b[1]))

VSub(a, b) == Pt(RSub(a[1], b[1]), RSub(a[2], b[2]))

PointAt(p, q, t) ==
    Pt(RAdd(p[1], RMul(t, RSub(q[1], p[1]))), RAdd(p[2], RMul(t, RSub(q[2], p[2]))))

\* The parameter interval [lo, hi] of the segment p-q inside the convex
\* polygon poly (counter-clockwise), edge by edge; lo > hi when it is empty.
\* c0 and c1 place the two ends of the segment relative to edge i.
RECURSIVE ClipRange(_, _, _, _, _, _)
ClipEdge(poly, i, p, q, lo, hi, c0, c1) ==
    IF c1[1] = 0
    THEN IF c0[1] < 0 THEN <<R(1), R(0)>>
         ELSE ClipRange(poly, i + 1, p, q, lo, hi)
    ELSE IF c1[1] > 0
         THEN ClipRange(poly, i + 1, p, q, RMax(lo, RDiv(RNeg(c0), c1)), hi)
         ELSE ClipRange(poly, i + 1, p, q, lo, RMin(hi, RDiv(RNeg(c0), c1)))

ClipRange(poly, i, p, q, lo, hi) ==
    IF i > Len(poly) THEN <<lo, hi>>
    ELSE ClipEdge(poly, i, p, q, lo, hi,
                  Cross(VSub(poly[(i % Len(poly)) + 1], poly[i]), VSub(p, poly[i])),
                  Cross(VSub(poly[(i % Len(poly)) + 1], poly[i]), VSub(q, p)))

\* face.common(line_wire).Edges for one straight edge p-q: the part of the
\* edge inside the closed region, when it has positive length.  The disc
\* (a face with a single vertex, at the top of the circle) is only ever
\* met by edges in the half plane above that vertex, which touch it in at
\* most a point.
Inside(p, q, r) ==
    IF RLt(r[1], r[2])
    THEN << <<PointAt(p, q, r[1]), PointAt(p, q, r[2])>> >>
    ELSE <<>>

Common(f, p, q) ==
    IF f.kind = "disc"
    THEN CHOOSE r \in {<<>>} : RLe(f.Vertexes[1][2], p[2]) /\ RLe(f.Vertexes[1][2], q[2])
    ELSE Inside(p, q, ClipRange(f.poly, 1, p, q, R(0), R(1)))

\* face.common(line_wire).Edges for a wire given by its points (a line has
\* two, the closed polygon of a staggered cell has five)
RECURSIVE CommonWire(_, _)
CommonWire(f, w) ==
    IF Len(w) < 2 THEN <<>>
    ELSE Common(f, w[1], w[2]) \o CommonWire(f, Tail(w))

\* clip_line_to_face(line, face): the kernel's intersection, or the line
\* itself when the kernel raises
clip_line_to_face(line, f, k) ==
    IF k.commonRaises THEN <<line>> ELSE CommonWire(f, line)

RECURSIVE ClipAll(_, _, _)
ClipAll(ls, f, k) ==
    IF ls = <<>> THEN <<>>
    ELSE clip_line_to_face(ls[1], f, k) \o ClipAll(Tail(ls), f, k)

(***************************************************************************)
(* Regions: the face found by BaseFace, given by its vertices in the local *)
(* frame (T_inv.multVec(v.Point) for v in face.Vertexes).                  *)
(***************************************************************************)
Half(n) == Norm(n, 2)

\* a w x h rectangle; its centre of mass is the local origin
RectFace(w, h) ==
    [kind |-> "poly",
     Vertexes |-> <<Pt(Half(-w), Half(-h)), Pt(Half(w), Half(-h)),
                    Pt(Half(w), Half(h)), Pt(Half(-w), Half(h))>>,
     poly |-> <<Pt(Half(-w), Half(-h)), Pt(Half(w), Half(-h)),
                Pt(Half(w), Half(h)), Pt(Half(-w), Half(h))>>]

\* a disc of radius r in the XY plane: one vertex, at local (0, r)
DiscFace(r) ==
    [kind |-> "disc", Vertexes |-> <<Pt(R(0), R(r))>>, poly |-> <<>>]

\* a right triangle with legs 3 * a; its centre of mass is the local
\* origin, the centre of its extent is not
TriFace(a) ==
    [kind |-> "poly",
     Vertexes |-> <<Pt(R(-a), R(-a)), Pt(R(2 * a), R(-a)), Pt(R(-a), R(2 * a))>>,
     poly |-> <<Pt(R(-a), R(-a)), Pt(R(2 * a), R(-a)), Pt(R(-a), R(2 * a))>>]

Xs(f) == [i \in 1..Len(f.Vertexes) |-> f.Vertexes[i][1]]
Ys(f) == [i \in 1..Len(f.Vertexes) |-> f.Vertexes[i][2]]

\* min_x, max_x, min_y, max_y of every generator
Extent(f) ==
    [min_x |-> SeqMin(Xs(f)), max_x |-> SeqMax(Xs(f)),
     min_y |-> SeqMin(Ys(f)), max_y |-> SeqMax(Ys(f))]

\* extension = 2 * sqrt(w^2 + h^2), replaced by the rational 2 * (w + h):
\* not smaller, equal when a side is zero, so the ends of every
\* construction line stay outside the region and the clipped result is
\* the same.
Extension(ex) ==
    RMul(R(2), RAdd(RSub(ex.max_x, ex.min_x), RSub(ex.max_y, ex.min_y)))

center_local(ex) ==
    Pt(RDiv(RAdd(ex.min_x, ex.max_x), R(2)), RDiv(RAdd(ex.min_y, ex.max_y), R(2)))

(***************************************************************************)
(* Float literals of the program.                                          *)
(***************************************************************************)
\* safe_div: a / b if abs(b) > 1e-6 else 0
SafeDivInv == 1000000

\* the 1e-9 of the loop conditions and of the zero tests
TinyInv == 1000000000

safe_div(a, b) == IF GtInv(RAbs(b), SafeDivInv) THEN RDiv(a, b) ELSE R(0)

\* x <= hi + 1e-9
LeTiny(x, hi) == ~GtInv(RSub(x, hi), TinyInv)

\* x <= 1e-9
IsTiny(x) == ~GtInv(x, TinyInv)

\* abs(x) < 1e-9
AbsBelowTiny(x) == Abs(x[1]) < (x[2] + TinyInv - 1) \div TinyInv

(***************************************************************************)
(* execute, step 5: PatternSequence is a comma separated text.  The text   *)
(* is modelled after split(","): a sequence of fields, each <<"num", n>>   *)
(* (the text of the number n), <<"blank", 0>> (white space only) or        *)
(* <<"bad", 0>> (text float() rejects).  The empty text is <<>>.           *)
(***************************************************************************)
RECURSIVE ParseFields(_)
ParseFields(fields) ==
    IF fields = <<>> THEN <<>>
    ELSE IF fields[1][1] = "blank" THEN ParseFields(Tail(fields))
         ELSE <<R(Abs(fields[1][2]))>> \o ParseFields(Tail(fields))

ParseRaises(fields) == \E i \in 1..Len(fields) : fields[i][1] = "bad"

TextIsEmpty(fields) == \A i \in 1..Len(fields) : fields[i][1] = "blank"

\* pattern_list of execute
pattern_list(o) ==
    IF o.UsePatternSequence /\ ~TextIsEmpty(o.PatternSequence)
                            /\ ~ParseRaises(o.PatternSequence)
    THEN ParseFields(o.PatternSequence)
    ELSE <<>>

ParseWarns(o) ==
    o.UsePatternSequence /\ ~TextIsEmpty(o.PatternSequence) /\ ParseRaises(o.PatternSequence)

(***************************************************************************)
(* The coordinate computations of the generators.                          *)
(***************************************************************************)
\* for i in range(count): min_val + i * spacing
Steps(min_val, spacing, count) ==
    [i \in 1..(IF count > 0 THEN count ELSE 0) |-> RAdd(min_val, RMul(R(i - 1), spacing))]

\* The pattern loop of buildHorizontalPattern, buildVerticalPattern and
\* buildDiagonalPattern: the repeat budget is decremented on every pass
\* once seq_index has reached len(pattern_list).
RECURSIVE PatternLoopGE(_, _, _, _, _, _)
PatternLoopGE(current, maxLen, pl, seq_index, repeat, acc) ==
    IF ~LeTiny(current, maxLen) THEN acc
    ELSE LET step == pl[(seq_index % Len(pl)) + 1]
             idx  == seq_index + 1
             rep  == IF idx >= Len(pl) THEN repeat - 1 ELSE repeat
         IN  IF idx >= Len(pl) /\ rep <= 0
             THEN Append(acc, current)
             ELSE PatternLoopGE(RAdd(current, step), maxLen, pl, idx, rep,
                                Append(acc, current))

\* The pattern loops of buildCrosshatch: the budget is decremented when
\* seq_index is a multiple of len(pattern_list), and the loop also stops
\* when the budget is not positive.
RECURSIVE PatternLoopMod(_, _, _, _, _, _)
PatternLoopMod(current, maxLen, pl, seq_index, repeat, acc) ==
    IF ~(LeTiny(current, maxLen) /\ repeat > 0) THEN acc
    ELSE LET step == pl[(seq_index % Len(pl)) + 1]
             idx  == seq_index + 1
             rep  == IF idx % Len(pl) = 0 THEN repeat - 1 ELSE repeat
         IN  IF idx % Len(pl) = 0 /\ rep <= 0
             THEN Append(acc, current)
             ELSE PatternLoopMod(RAdd(current, step), maxLen, pl, idx, rep,
                                 Append(acc, current))

(***************************************************************************)
(* The same loops pass by pass.  A loop state holds the loop variables of  *)
(* the program (current, seq_index, the repeat budget), the values it has  *)
(* built lines at (acc) and what it was started with (from).  kind is "GE" *)
(* for the loops of buildHorizontalPattern, buildVerticalPattern and       *)
(* buildDiagonalPattern, "Mod" for the loops of buildCrosshatch; axis      *)
(* names the line family the loop builds.                                  *)
(***************************************************************************)
\* no loop is running
Idle ==
    [kind |-> "idle", axis |-> "", current |-> R(0), maxLen |-> R(0), pl |-> <<>>,
     seq_index |-> 0, repeat |-> 0, acc |-> <<>>, done |-> TRUE, from |-> <<R(0), 0>>]

\* the loop before its first pass
LoopStart(kind, axis, current, maxLen, pl, repeat) ==
    [kind |-> kind, axis |-> axis, current |-> current, maxLen |-> maxLen, pl |-> pl,
     seq_index |-> 0, repeat |-> repeat, acc |-> <<>>, done |-> FALSE,
     from |-> <<current, repeat>>]

\* a pass that never leaves the loop on an exhausted budget
LoopPassNoBreak(l) ==
    LET step == l.pl[(l.seq_index % Len(l.pl)) + 1]
        idx  == l.seq_index + 1
        full == IF l.kind = "GE" THEN idx >= Len(l.pl) ELSE idx % Len(l.pl) = 0
        rep  == IF full THEN l.repeat - 1 ELSE l.repeat
    IN  IF ~LeTiny(l.current, l.maxLen)
        THEN [l EXCEPT !.done = TRUE]
        ELSE [l EXCEPT !.acc = Append(@, l.current), !.seq_index = idx, !.repeat = rep,
                       !.current = RAdd(@, step)]

\* one test of the while condition and, when it holds, one pass through
\* the body: build the line at current, take the step of the sequence,
\* count the budget down and break when it is used up
LoopPass(l) ==
    LET step == l.pl[(l.seq_index % Len(l.pl)) + 1]
        idx  == l.seq_index + 1
        full == IF l.kind = "GE" THEN idx >= Len(l.pl) ELSE idx % Len(l.pl) = 0
        rep  == IF full THEN l.repeat - 1 ELSE l.repeat
    IN  IF ~(LeTiny(l.current, l.maxLen) /\ (l.kind = "Mod" => l.repeat > 0))
        THEN [l EXCEPT !.done = TRUE]
        ELSE IF full /\ rep <= 0
             THEN [l EXCEPT !.acc = Append(@, l.current), !.seq_index = idx, !.repeat = rep,
                            !.done = TRUE]
             ELSE [l EXCEPT !.acc = Append(@, l.current), !.seq_index = idx, !.repeat = rep,
                            !.current = RAdd(@, step)]

\* the count without the line at the first value
EdgeAbsoluteCountShort(lo_start, hi, spacing) ==
    IF spacing[1] > 0 THEN RFloor(safe_div(RSub(hi, lo_start), spacing)) ELSE 0

\* count of the Edge-to-Edge, Absolute Spacing branch
EdgeAbsoluteCount(lo_start, hi, spacing) ==
    IF spacing[1] > 0 THEN RFloor(safe_div(RSub(hi, lo_start), spacing)) + 1 ELSE 0

\* n_val of the Center-outward, Absolute Spacing branch
CenterAbsoluteN(total_length, primary) ==
    IF primary[1] # 0 THEN RTrunc(safe_div(RDiv(total_length, R(2)), primary)) ELSE 0

\* the division count taken as it is, with no lower limit of 1
QuantityCountRaw(division_count) == division_count

\* count = division_count if division_count > 1 else 1
QuantityCount(division_count) == IF division_count > 1 THEN division_count ELSE 1

\* the spacing computation with count / 2 in place of count // 2
SpacingCoordsTrueDivision(o, lo, hi) ==
    LET start   == R(o.StartOffset)
        primary == o.PrimarySpacing
        total   == RSub(hi, lo)
        center  == RDiv(RAdd(lo, hi), R(2))
        qcount  == QuantityCount(o.Divisions)
    IN  IF o.AlignmentMode = "Center-outward"
        THEN IF o.SpacingMode = "Absolute Spacing"
             THEN LET n_val == CenterAbsoluteN(total, primary)
                  IN  Steps(RSub(center, RMul(R(n_val), primary)), primary, 2 * n_val + 1)
             ELSE LET spacing == IF qcount > 1 THEN safe_div(total, R(qcount - 1)) ELSE total
                  IN  Steps(RSub(center, RMul(spacing, RDiv(R(qcount), R(2)))), spacing, qcount)
        ELSE LET min_val == RAdd(lo, start)
             IN  IF o.SpacingMode = "Absolute Spacing"
                 THEN Steps(min_val, primary, EdgeAbsoluteCount(min_val, hi, primary))
                 ELSE Steps(min_val,
                            IF qcount > 1 THEN safe_div(RSub(hi, min_val), R(qcount - 1))
                            ELSE total,
                            qcount)

\* The spacing computation of buildHorizontalPattern over [lo, hi] (the
\* code after the pattern branch); buildVerticalPattern repeats it.
SpacingCoords(o, lo, hi) ==
    LET start   == R(o.StartOffset)
        primary == o.PrimarySpacing
        total   == RSub(hi, lo)
        center  == RDiv(RAdd(lo, hi), R(2))
        qcount  == QuantityCount(o.Divisions)
    IN  IF o.AlignmentMode = "Center-outward"
        THEN IF o.SpacingMode = "Absolute Spacing"
             THEN LET n_val == CenterAbsoluteN(total, primary)
                  IN  Steps(RSub(center, RMul(R(n_val), primary)), primary, 2 * n_val + 1)
             ELSE LET spacing == IF qcount > 1 THEN safe_div(total, R(qcount - 1)) ELSE total
                  IN  Steps(RSub(center, RMul(spacing, R(qcount \div 2))), spacing, qcount)
        ELSE LET min_val == RAdd(lo, start)
             IN  IF o.SpacingMode = "Absolute Spacing"
                 THEN Steps(min_val, primary, EdgeAbsoluteCount(min_val, hi, primary))
                 ELSE Steps(min_val,
                            IF qcount > 1 THEN safe_div(RSub(hi, min_val), R(qcount - 1))
                            ELSE total,
                            qcount)

\* coordinates of buildHorizontalPattern: values of local x
HorizontalCoords(o, ex, pl) ==
    IF pl # <<>>
    THEN PatternLoopGE(RAdd(ex.min_x, R(o.StartOffset)), ex.max_x, pl, 0,
                       o.PatternRepeat, <<>>)
    ELSE SpacingCoords(o, ex.min_x, ex.max_x)

\* coordinates of buildVerticalPattern: values of local y
VerticalCoords(o, ex, pl) ==
    IF pl # <<>>
    THEN PatternLoopGE(RAdd(ex.min_y, R(o.StartOffset)), ex.max_y, pl, 0,
                       o.PatternRepeat, <<>>)
    ELSE SpacingCoords(o, ex.min_y, ex.max_y)

\* The spacing computation of one line set of buildCrosshatch over
\* [lo, hi] with that set's spacing (hspace for the lines of constant x,
\* vspace for the lines of constant y).
CrosshatchCoords(o, lo, hi, spacing, pl) ==
    LET start  == R(o.StartOffset)
        total  == RSub(hi, lo)
        center == RDiv(RAdd(lo, hi), R(2))
        qcount == QuantityCount(o.Divisions)
    IN  IF pl # <<>>
        THEN PatternLoopMod(RAdd(lo, start), hi, pl, 0, o.PatternRepeat, <<>>)
        ELSE IF o.SpacingMode = "Absolute Spacing"
             THEN IF o.AlignmentMode = "Center-outward"
                  THEN LET n_val == IF spacing[1] > 0
                                    THEN RTrunc(safe_div(RDiv(total, R(2)), spacing))
                                    ELSE 0
                       IN  Steps(RSub(center, RMul(R(n_val), spacing)), spacing,
                                 2 * n_val + 1)
                  ELSE Steps(RAdd(lo, start), spacing,
                             EdgeAbsoluteCount(RAdd(lo, start), hi, spacing))
             ELSE IF o.AlignmentMode = "Center-outward"
                  THEN LET sp == IF qcount > 1 THEN safe_div(total, R(qcount - 1)) ELSE total
                       IN  Steps(RSub(center, RMul(sp, R(qcount \div 2))), sp, qcount)
                  ELSE Steps(RAdd(lo, start),
                             IF qcount > 1
                             THEN safe_div(RSub(hi, RAdd(lo, start)), R(qcount - 1))
                             ELSE total,
                             qcount)

\* the horizontal spacing read whatever LinkedSpacing says
hspaceUnlinked(o) == o.HorizontalSpacing

\* hspace and vspace of buildCrosshatch
hspace(o) == IF o.LinkedSpacing THEN o.PrimarySpacing ELSE o.HorizontalSpacing

vspace(o) == IF o.LinkedSpacing THEN o.PrimarySpacing ELSE o.VerticalSpacing

(***************************************************************************)
(* Construction lines.  A construction line is a record: fam names the     *)
(* family ("U": constant local x, spanning y; "V": constant local y,       *)
(* spanning x; "D", "A": the diagonal families; "cell": a staggered cell), *)
(* c is the coordinate it was placed at, w its points.                     *)
(***************************************************************************)
Rotated(p, ex, deg) == IF deg # 0 THEN RotateAbout(p, center_local(ex), deg) ELSE p

\* a line of constant local x = c, as the generators build it
ULine(c, ex, deg) ==
    [fam |-> "U", c |-> c,
     w |-> <<Rotated(Pt(c, RSub(ex.min_y, Extension(ex))), ex, deg),
             Rotated(Pt(c, RAdd(ex.max_y, Extension(ex))), ex, deg)>>]

\* a line of constant local y = c
VLine(c, ex, deg) ==
    [fam |-> "V", c |-> c,
     w |-> <<Rotated(Pt(RSub(ex.min_x, Extension(ex)), c), ex, deg),
             Rotated(Pt(RAdd(ex.max_x, Extension(ex)), c), ex, deg)>>]

ULines(cs, ex, deg) == [i \in 1..Len(cs) |-> ULine(cs[i], ex, deg)]

VLines(cs, ex, deg) == [i \in 1..Len(cs) |-> VLine(cs[i], ex, deg)]

Wires(cons) == [i \in 1..Len(cons) |-> cons[i].w]

\* Part.makeLine raises on one of the construction lines
AnyMakeLineRaises(cons) ==
    \E i \in 1..Len(cons) : cons[i].fam # "cell" /\ MakeLineRaises(cons[i].w[1], cons[i].w[2])

\* what a generator hands back: whether it raised, the clipped lines, the
\* construction lines it built and the messages it printed
GenResult(raised, lines, cons, msgs) ==
    [raised |-> raised, lines |-> IF raised THEN <<>> ELSE lines, pre |-> cons, msgs |-> msgs]

\* the final loop of buildCrosshatch, buildDiagonalPattern and
\* buildStaggeredPattern: rotate the end points of every clipped edge
\* about center_local and clip the rotated line again
RotateClipped(lines, f, k, ex, deg) ==
    ClipAll([i \in 1..Len(lines) |->
                <<RotateAbout(lines[i][1], center_local(ex), deg),
                  RotateAbout(lines[i][2], center_local(ex), deg)>>], f, k)

\* make every construction line, clip it, and rotate the clipped lines
\* again when finalRotation is set
Built(cons, f, k, ex, deg, finalRotation, msgs) ==
    GenResult(AnyMakeLineRaises(cons),
              IF finalRotation
              THEN RotateClipped(ClipAll(Wires(cons), f, k), f, k, ex, deg)
              ELSE ClipAll(Wires(cons), f, k),
              cons, msgs)

buildHorizontalPattern(o, f, k, pl) ==
    Built(ULines(HorizontalCoords(o, Extent(f), pl), Extent(f), o.RotationAngle),
          f, k, Extent(f), o.RotationAngle, FALSE, {})

buildVerticalPattern(o, f, k, pl) ==
    Built(VLines(VerticalCoords(o, Extent(f), pl), Extent(f), o.RotationAngle),
          f, k, Extent(f), o.RotationAngle, FALSE, {})

CrosshatchLines(o, ex, pl) ==
    ULines(CrosshatchCoords(o, ex.min_x, ex.max_x, hspace(o), pl), ex, o.RotationAngle)
    \o VLines(CrosshatchCoords(o, ex.min_y, ex.max_y, vspace(o), pl), ex, o.RotationAngle)

buildCrosshatch(o, f, k, pl) ==
    Built(CrosshatchLines(o, Extent(f), pl), f, k, Extent(f), o.RotationAngle,
          o.RotationAngle # 0, {})

(***************************************************************************)
(* buildDiagonalPattern                                                    *)
(***************************************************************************)
\* pt.x * normal.x + pt.y * normal.y with normal = (-sin, cos)
Proj(pt, deg) == RAdd(RMul(pt[1], RNeg(Sin(deg))), RMul(pt[2], Cos(deg)))

Projections(f, deg) == [i \in 1..Len(f.Vertexes) |-> Proj(f.Vertexes[i], deg)]

\* the line of a diagonal family at projected distance d
DLine(fam, d, ex, deg) ==
    LET off == RSub(d, Proj(center_local(ex), deg))
        p   == Pt(RAdd(center_local(ex)[1], RMul(RNeg(Sin(deg)), off)),
                  RAdd(center_local(ex)[2], RMul(Cos(deg), off)))
        e   == Extension(ex)
    IN  [fam |-> fam, c |-> d,
         w |-> <<Pt(RSub(p[1], RMul(Cos(deg), e)), RSub(p[2], RMul(Sin(deg), e))),
                 Pt(RAdd(p[1], RMul(Cos(deg), e)), RAdd(p[2], RMul(Sin(deg), e)))>>]

DLines(fam, cs, ex, deg) == [i \in 1..Len(cs) |-> DLine(fam, cs[i], ex, deg)]

\* spacing of the Quantity Divisions branches
DiagonalQuantitySpacing(o, f, deg) ==
    LET total_len == RSub(SeqMax(Projections(f, deg)), SeqMin(Projections(f, deg)))
        count     == QuantityCount(o.Divisions)
    IN  IF count > 1 THEN safe_div(total_len, R(count - 1)) ELSE total_len

\* the primary family returns early, before the alternate family
DiagonalSpacingZero(o, pl) ==
    pl = <<>> /\ o.SpacingMode = "Absolute Spacing" /\ IsTiny(o.PrimarySpacing)

DiagonalReturnsEarly(o, f, pl) ==
    \/ DiagonalSpacingZero(o, pl)
    \/ /\ pl = <<>>
       /\ o.SpacingMode # "Absolute Spacing"
       /\ IsTiny(DiagonalQuantitySpacing(o, f, o.DiagonalAngle))

\* coordinates of the primary family
DiagonalCoords(o, f, pl) ==
    LET min_proj == SeqMin(Projections(f, o.DiagonalAngle))
        max_proj == SeqMax(Projections(f, o.DiagonalAngle))
        dstart   == RAdd(min_proj, R(o.StartOffset))
    IN  IF pl # <<>>
        THEN PatternLoopGE(dstart, max_proj, pl, 0, o.PatternRepeat, <<>>)
        ELSE IF DiagonalReturnsEarly(o, f, pl) THEN <<>>
        ELSE IF o.SpacingMode = "Absolute Spacing"
             THEN Steps(dstart, o.PrimarySpacing,
                        RFloor(safe_div(RSub(max_proj, dstart), o.PrimarySpacing)) + 1)
             ELSE Steps(dstart, DiagonalQuantitySpacing(o, f, o.DiagonalAngle),
                        QuantityCount(o.Divisions))

\* coordinates of the alternate family
AlternateCoords(o, f, pl) ==
    LET min_proj_alt == SeqMin(Projections(f, o.AlternateAngle))
        max_proj_alt == SeqMax(Projections(f, o.AlternateAngle))
        dstart_alt   == RAdd(min_proj_alt, R(o.StartOffset))
    IN  IF ~o.UseAlternateAngle \/ DiagonalReturnsEarly(o, f, pl) THEN <<>>
        ELSE IF pl # <<>>
        THEN PatternLoopGE(dstart_alt, max_proj_alt, pl, 0, o.PatternRepeat, <<>>)
        ELSE IF o.SpacingMode = "Absolute Spacing"
             THEN Steps(dstart_alt, o.PrimarySpacing,
                        RFloor(RDiv(RSub(max_proj_alt, min_proj_alt), o.PrimarySpacing)) + 1)
             ELSE Steps(dstart_alt, DiagonalQuantitySpacing(o, f, o.AlternateAngle),
                        QuantityCount(o.Divisions))

DiagonalLines(o, f, ex, pl) ==
    DLines("D", DiagonalCoords(o, f, pl), ex, o.DiagonalAngle)
    \o DLines("A", AlternateCoords(o, f, pl), ex, o.AlternateAngle)

\* if abs(rotation_deg) > 1e-9 and lines: rotating no line changes nothing
buildDiagonalPattern(o, f, k, pl) ==
    Built(DiagonalLines(o, f, Extent(f), pl), f, k, Extent(f), o.RotationAngle,
          o.RotationAngle # 0,
          IF DiagonalSpacingZero(o, pl) THEN {"Spacing is zero in diagonal mode."} ELSE {})

(***************************************************************************)
(* buildStaggeredPattern                                                   *)
(***************************************************************************)
cell_size(o, ex) ==
    IF o.SpacingMode = "Absolute Spacing" THEN o.PrimarySpacing
    ELSE safe_div(RMin(RSub(ex.max_x, ex.min_x), RSub(ex.max_y, ex.min_y)),
                  R(IF o.Divisions > 0 THEN o.Divisions ELSE 1))

\* the cell with every row (or column) shifted, the even ones included
CellShiftAll(o, ex, i, j) ==
    LET cs == cell_size(o, ex)
        x0 == RAdd(RAdd(ex.min_x, RMul(R(j), cs)),
                   IF o.StaggerDirection = "Horizontal"
                   THEN R(o.StaggerOffset) ELSE R(0))
        y0 == RAdd(RAdd(ex.min_y, RMul(R(i), cs)),
                   IF o.StaggerDirection = "Vertical"
                   THEN R(o.StaggerOffset) ELSE R(0))
    IN  [fam |-> "cell", c |-> Pt(x0, y0),
         w |-> <<Pt(x0, y0), Pt(RAdd(x0, cs), y0), Pt(RAdd(x0, cs), RAdd(y0, cs)),
                 Pt(x0, RAdd(y0, cs)), Pt(x0, y0)>>]

\* the closed polygon of the cell in row i, column j (both from 0)
Cell(o, ex, i, j) ==
    LET cs == cell_size(o, ex)
        x0 == RAdd(RAdd(ex.min_x, RMul(R(j), cs)),
                   IF o.StaggerDirection = "Horizontal" /\ i % 2 = 1
                   THEN R(o.StaggerOffset) ELSE R(0))
        y0 == RAdd(RAdd(ex.min_y, RMul(R(i), cs)),
                   IF o.StaggerDirection = "Vertical" /\ j % 2 = 1
                   THEN R(o.StaggerOffset) ELSE R(0))
    IN  [fam |-> "cell", c |-> Pt(x0, y0),
         w |-> <<Pt(x0, y0), Pt(RAdd(x0, cs), y0), Pt(RAdd(x0, cs), RAdd(y0, cs)),
                 Pt(x0, RAdd(y0, cs)), Pt(x0, y0)>>]

StaggeredCells(o, ex) ==
    LET cs   == cell_size(o, ex)
        cols == RFloor(RDiv(RSub(ex.max_x, ex.min_x), cs)) + 1
        rows == RFloor(RDiv(RSub(ex.max_y, ex.min_y), cs)) + 1
    IN  IF AbsBelowTiny(cs) \/ cols <= 0 \/ rows <= 0 THEN <<>>
        ELSE [n \in 1..(rows * cols) |-> Cell(o, ex, (n - 1) \div cols, (n - 1) % cols)]

buildStaggeredPattern(o, f, k) ==
    Built(StaggeredCells(o, Extent(f)), f, k, Extent(f), o.RotationAngle,
          o.RotationAngle # 0,
          IF AbsBelowTiny(cell_size(o, Extent(f)))
          THEN {"Cell size is zero in staggered mode."} ELSE {})

(***************************************************************************)
(* SubdivisionPattern.execute                                              *)
(*                                                                         *)
(* BaseFace is "None", "Malformed" (it cannot be unpacked), "NoSub" (the   *)
(* list of sub-element names is empty), "NotFound" (getElement raises) or  *)
(* "Face" (the face is found; the variable face holds its geometry).       *)
(* ReferenceLine is <<>> (None) or <<a>>, a the angle in degrees from the  *)
(* local x axis to the direction of the linked edge.                       *)
(***************************************************************************)
EmptyCompound == [kind |-> "Compound", wires |-> <<>>]

\* the shape of a feature that was never computed
NullShape == [kind |-> "Null", wires |-> <<>>]

KnownModes ==
    {"Horizontal", "Vertical", "Crosshatch", "Diagonal/Herringbone", "Staggered/Offset Grid"}

\* step 1 without the test of the sub-element list
BaseFaceErrorNoSubTest(o) ==
    CASE o.BaseFace = "None"      -> "No base face defined."
      [] o.BaseFace = "Malformed" -> "BaseFace property malformed."
      [] o.BaseFace = "NotFound"  -> "Could not find the linked face."
      [] OTHER                    -> ""

\* step 1: the message of the failed check, "" when BaseFace is usable
BaseFaceError(o) ==
    CASE o.BaseFace = "None"      -> "No base face defined."
      [] o.BaseFace = "Malformed" -> "BaseFace property malformed."
      [] o.BaseFace = "NoSub"     -> "No base face sub-element."
      [] o.BaseFace = "NotFound"  -> "Could not find the linked face."
      [] OTHER                    -> ""

\* step 2: obj.RotationAngle = math.degrees(t.getAngle(edge_dir)); getAngle
\* is the unsigned angle
ReferenceAngle(o) ==
    IF o.ReferenceLine # <<>> THEN Abs(o.ReferenceLine[1]) ELSE o.RotationAngle

\* step 6: the dispatch on SubdivisionMode
Generate(o, f, k, pl) ==
    CASE o.SubdivisionMode = "Horizontal"            -> buildHorizontalPattern(o, f, k, pl)
      [] o.SubdivisionMode = "Vertical"              -> buildVerticalPattern(o, f, k, pl)
      [] o.SubdivisionMode = "Crosshatch"            -> buildCrosshatch(o, f, k, pl)
      [] o.SubdivisionMode = "Diagonal/Herringbone"  -> buildDiagonalPattern(o, f, k, pl)
      [] o.SubdivisionMode = "Staggered/Offset Grid" -> buildStaggeredPattern(o, f, k)

\* a horizontal flip that reads the other coordinate
FlipPointCrossed(o, p) ==
    Pt(IF o.FlipHorizontal THEN RNeg(p[2]) ELSE p[1],
       IF o.FlipVertical THEN RNeg(p[2]) ELSE p[2])

\* step 7: mirror the first two points of every line about the local origin
\* (centerLocal, the centre of mass in its own frame)
FlipPoint(o, p) ==
    Pt(IF o.FlipHorizontal THEN RNeg(p[1]) ELSE p[1],
       IF o.FlipVertical THEN RNeg(p[2]) ELSE p[2])

Flipped(o, lines) ==
    IF lines # <<>> /\ (o.FlipHorizontal \/ o.FlipVertical)
    THEN [i \in 1..Len(lines) |-> <<FlipPoint(o, lines[i][1]), FlipPoint(o, lines[i][2])>>]
    ELSE lines

\* step 8: face.OuterWire.makeOffset2D(-ClipOffset) of a rectangle: the
\* rectangle inset by d on every side; the kernel fails when nothing is left
OffsetCollapses(f, d) ==
    LET ex == Extent(f)
    IN  IF f.kind = "disc" THEN RLe(f.Vertexes[1][2], R(d))
        ELSE \/ RLe(RSub(ex.max_x, ex.min_x), R(2 * d))
             \/ RLe(RSub(ex.max_y, ex.min_y), R(2 * d))

OffsetFace(f, d) ==
    LET ex == Extent(f)
        a  == Pt(RAdd(ex.min_x, R(d)), RAdd(ex.min_y, R(d)))
        b  == Pt(RSub(ex.max_x, R(d)), RSub(ex.max_y, R(d)))
        ps == <<a, Pt(b[1], a[2]), b, Pt(a[1], b[2])>>
    IN  IF f.kind = "disc"
        THEN [kind |-> "disc", Vertexes |-> <<Pt(R(0), RSub(f.Vertexes[1][2], R(d)))>>,
              poly |-> <<>>]
        ELSE [kind |-> "poly", Vertexes |-> ps, poly |-> ps]

ClipOffsetApplies(o, lines) == lines # <<>> /\ o.UseClipOffset /\ o.ClipOffset # 0

ClipOffsetFails(o, f, k) == k.offsetRaises \/ OffsetCollapses(f, o.ClipOffset)

ClipOffsetLines(o, f, k, lines) ==
    IF ClipOffsetApplies(o, lines) /\ ~ClipOffsetFails(o, f, k)
    THEN LET new_lines == ClipAll(lines, OffsetFace(f, o.ClipOffset), k)
         IN  IF new_lines # <<>> THEN new_lines ELSE lines
    ELSE lines

\* step 9: wires[0].fuse(w) for every further wire, then removeSplitter();
\* no handler encloses them
FuseRaises(o, k, lines) == lines # <<>> /\ o.Fuse /\ k.fuseRaises

Compose(o, lines) ==
    IF lines = <<>> THEN EmptyCompound
    ELSE [kind |-> IF o.Fuse THEN "Fused" ELSE "Compound", wires |-> lines]

\* steps 8 and 9 adding the new wires to the wires of the shape in place
FinishedAccumulating(o2, f, k, oldShape, gen, flip, clip) ==
    [Shape |-> Compose(o2, oldShape.wires \o clip),
     console |-> gen.msgs, ran |-> {"frame", o2.SubdivisionMode},
     outcome |-> "returned", pre |-> gen.pre, RotationAngle |-> o2.RotationAngle]

\* steps 8 and 9, given the lines after the flip and after the clip offset
Finished(o2, f, k, oldShape, gen, flip, clip) ==
    [Shape |-> IF FuseRaises(o2, k, clip) THEN oldShape ELSE Compose(o2, clip),
     console |-> gen.msgs
                 \cup (IF ParseWarns(o2) THEN {"Failed to parse PatternSequence."} ELSE {})
                 \cup (IF k.commonRaises /\ gen.pre # <<>> THEN {"Clipping error"} ELSE {})
                 \cup (IF ClipOffsetApplies(o2, flip) /\ ClipOffsetFails(o2, f, k)
                       THEN {"Clip offset failed"} ELSE {}),
     ran |-> {"frame", o2.SubdivisionMode}
             \cup (IF gen.lines # <<>> /\ (o2.FlipHorizontal \/ o2.FlipVertical)
                   THEN {"flip"} ELSE {})
             \cup (IF ClipOffsetApplies(o2, flip) THEN {"clipoffset"} ELSE {})
             \cup (IF clip # <<>> /\ o2.Fuse THEN {"fuse"} ELSE {}),
     outcome |-> IF FuseRaises(o2, k, clip) THEN "raised" ELSE "returned",
     pre |-> gen.pre,
     RotationAngle |-> o2.RotationAngle]

Flipping(o2, f, k, oldShape, gen, flip) ==
    Finished(o2, f, k, oldShape, gen, flip, ClipOffsetLines(o2, f, k, flip))

\* steps 7 to 9, given what the generator handed back; an exception of the
\* generator leaves execute
Generated(o2, f, k, oldShape, gen) ==
    IF gen.raised
    THEN [Shape |-> oldShape,
          console |-> gen.msgs
                      \cup (IF ParseWarns(o2) THEN {"Failed to parse PatternSequence."} ELSE {}),
          ran |-> {"frame", o2.SubdivisionMode},
          outcome |-> "raised", pre |-> gen.pre, RotationAngle |-> o2.RotationAngle]
    ELSE Flipping(o2, f, k, oldShape, gen, Flipped(o2, gen.lines))

\* the result of a return before any generator runs
Refused(o, msgs, steps) ==
    [Shape |-> EmptyCompound, console |-> msgs, ran |-> steps,
     outcome |-> "returned", pre |-> <<>>, RotationAngle |-> o.RotationAngle]

Checked(o2, f, k, oldShape) ==
    IF o2.SubdivisionMode \notin KnownModes
    THEN Refused(o2, {"Unsupported subdivision mode: " \o o2.SubdivisionMode}
                     \cup (IF ParseWarns(o2) THEN {"Failed to parse PatternSequence."} ELSE {}),
                 {"frame"})
    ELSE Generated(o2, f, k, oldShape, Generate(o2, f, k, pattern_list(o2)))

\* The whole of execute: the shape stored (the old one when an exception
\* leaves execute), the messages printed, the steps that ran, how it ended,
\* the construction lines of the generator and the RotationAngle it leaves.
ExecuteResult(o, f, k, oldShape) ==
    IF BaseFaceError(o) # ""
    THEN Refused(o, {BaseFaceError(o)}, {})
    ELSE Checked([o EXCEPT !.RotationAngle = ReferenceAngle(o)], f, k, oldShape)

(***************************************************************************)
(* The feature object and its host.                                        *)
(***************************************************************************)
\* the properties SubdivisionPattern.__init__ adds, with their defaults
\* (DiagonalAngle 45 and AlternateAngle -45 are replaced by the nearest
\* angles with rational sine and cosine)
Constructed ==
    [BaseFace |-> "None", PrimarySpacing |-> R(500), Divisions |-> 10, RotationAngle |-> 0,
     RotationAxis |-> "Z", StartOffset |-> 0,
     SpacingMode |-> "Absolute Spacing", SubdivisionMode |-> "Horizontal",
     AlignmentMode |-> "Edge-to-Edge", UseClipOffset |-> FALSE, ClipOffset |-> 0,
     DiagonalAngle |-> 53, UseAlternateAngle |-> FALSE, AlternateAngle |-> -53,
     StaggerOffset |-> 2, StaggerDirection |-> "Horizontal",
     HorizontalSpacing |-> R(50), VerticalSpacing |-> R(50), LinkedSpacing |-> TRUE,
     ReferenceLine |-> <<>>, PatternSequence |-> <<>>, PatternRepeat |-> 1,
     FlipHorizontal |-> FALSE, FlipVertical |-> FALSE, UsePatternSequence |-> FALSE,
     Fuse |-> FALSE]

\* the kernel operations that raise in this run
KernelOk == [commonRaises |-> FALSE, offsetRaises |-> FALSE, fuseRaises |-> FALSE]

\* the properties whose change makes onChanged call fp.recompute()
OnChangedProps ==
    {"PrimarySpacing", "Divisions", "RotationAngle", "RotationAxis",
     "StartOffset", "SpacingMode", "SubdivisionMode", "AlignmentMode",
     "UseClipOffset", "ClipOffset", "DiagonalAngle", "UseAlternateAngle",
     "AlternateAngle", "StaggerOffset", "StaggerDirection",
     "HorizontalSpacing", "VerticalSpacing", "LinkedSpacing",
     "ReferenceLine", "PatternSequence", "PatternRepeat", "BaseFace",
     "FlipHorizontal", "FlipVertical"}

\* the state after a run of execute on the object o with result r; the
\* run is entered in the history with the number of writes before it
Stored(o, r) ==
    /\ obj' = [o EXCEPT !.RotationAngle = r.RotationAngle]
    /\ Shape' = r.Shape
    /\ console' = r.console
    /\ ran' = r.ran
    /\ outcome' = r.outcome
    /\ pre' = r.pre
    /\ arg' = o
    /\ seen' = seen \cup {[at |-> writes', o |-> o, face |-> face, outcome |-> r.outcome,
                             Shape |-> r.Shape]}
    /\ UNCHANGED loop

\* one run of execute on the object o
Executed(o) == Stored(o, ExecuteResult(o, face, kernel, Shape))

\* the document recomputes the feature
Recompute ==
    /\ UNCHANGED <<face, kernel, writes, frame, editor, dialog>>
    /\ Executed(obj)

\* a property of the feature is written: the value is stored and, for the
\* properties onChanged lists, the feature is recomputed
Write(prop, v) ==
    /\ writes < MaxWrites
    /\ obj[prop] # v
    /\ writes' = writes + 1
    /\ IF prop \in OnChangedProps
       THEN Executed([obj EXCEPT ![prop] = v])
       ELSE /\ obj' = [obj EXCEPT ![prop] = v]
            /\ UNCHANGED <<Shape, console, ran, outcome, pre, arg, seen, loop>>
    /\ UNCHANGED <<face, kernel, frame, editor, dialog>>

(***************************************************************************)
(* ArchFrame.py: _Frame.execute.  The frame object is the record frame:    *)
(* Base is "None" (no Base or no Shape), "Bare" (no edges, no solids),     *)
(* "Solid" (no edges, solids) or "Edges"; kept is the number of edges the  *)
(* Edges filter leaves; Profile is "None", "Empty" (no faces, no wires),   *)
(* "Wires" or "Faces"; multiFuse is what shapes[0].multiFuse does ("ok",   *)
(* "invalid" result, "raises"); AddTool and SubtractTool are "None" (no    *)
(* link or no Shape), "Ok", "Null" (shape null or invalid), "Invalid"      *)
(* (result of the operation invalid) or "Raises".  A shape is a record:    *)
(* body names what was built, add and cut whether a tool was applied.      *)
(***************************************************************************)
OldFrameShape == [body |-> <<"old", 0>>, add |-> FALSE, cut |-> FALSE]

\* the object _Frame.__init__ leaves: Align is True, no links
NoFrame ==
    [Base |-> "None", kept |-> 0, Profile |-> "None", CloneOf |-> FALSE, Align |-> TRUE,
     Fuse |-> FALSE, multiFuse |-> "ok", AddTool |-> "None", SubtractTool |-> "None",
     Placement |-> "Origin", Shape |-> OldFrameShape, console |-> {}, outcome |-> "none",
     ran |-> {}]

\* execute returns before the end: nothing is stored
FrameLeft(f, msgs, steps, how) ==
    [f EXCEPT !.console = msgs, !.ran = steps, !.outcome = how]

\* the AddTool step with every failure leaving no shape at all
AddToolStepAbort(shape, tool) ==
    CASE tool = "None"    -> [Shape |-> shape, msgs |-> {}, steps |-> {}]
      [] tool = "Ok"      -> [Shape |-> [shape EXCEPT !.add = TRUE], msgs |-> {},
                              steps |-> {"addtool"}]
      [] OTHER            -> [Shape |-> [shape EXCEPT !.body = <<"null", 0>>], msgs |-> {},
                              steps |-> {"addtool"}]

\* if obj.AddTool and obj.AddTool.Shape: try ... except
AddToolStep(shape, tool) ==
    CASE tool = "None"    -> [Shape |-> shape, msgs |-> {}, steps |-> {}]
      [] tool = "Ok"      -> [Shape |-> [shape EXCEPT !.add = TRUE], msgs |-> {},
                              steps |-> {"addtool"}]
      [] tool = "Null"    -> [Shape |-> shape, msgs |-> {"AddTool: Shape is null or invalid."},
                              steps |-> {"addtool"}]
      [] tool = "Invalid" -> [Shape |-> shape, msgs |-> {"AddTool: Fused shape invalid."},
                              steps |-> {"addtool"}]
      [] tool = "Raises"  -> [Shape |-> shape, msgs |-> {"AddTool failed"},
                              steps |-> {"addtool"}]

\* if obj.SubtractTool and obj.SubtractTool.Shape: try ... except
SubtractToolStep(shape, tool) ==
    CASE tool = "None"    -> [Shape |-> shape, msgs |-> {}, steps |-> {}]
      [] tool = "Ok"      -> [Shape |-> [shape EXCEPT !.cut = TRUE], msgs |-> {},
                              steps |-> {"subtracttool"}]
      [] tool = "Null"    -> [Shape |-> shape,
                              msgs |-> {"SubtractTool: Shape is null or invalid."},
                              steps |-> {"subtracttool"}]
      [] tool = "Invalid" -> [Shape |-> shape, msgs |-> {"SubtractTool: Cut shape invalid."},
                              steps |-> {"subtracttool"}]
      [] tool = "Raises"  -> [Shape |-> shape, msgs |-> {"SubtractTool failed"},
                              steps |-> {"subtracttool"}]

\* the tool steps and the end of execute: obj.Shape = final_shape, which
\* moves the object to the shape's placement, then obj.Placement = pl
FrameStored(f, final_shape, msgs, steps) ==
    LET added == AddToolStep(final_shape, f.AddTool)
        cut   == SubtractToolStep(added.Shape, f.SubtractTool)
    IN  [f EXCEPT !.Shape = cut.Shape,
                  !.Placement = f.Placement,
                  !.console = msgs \cup added.msgs \cup cut.msgs,
                  !.ran = steps \cup {"tools"} \cup added.steps \cup cut.steps \cup {"store"},
                  !.outcome = "returned"]

\* if obj.Fuse: try multiFuse ... else the compound of the extrusions
FrameFused(f) ==
    IF f.Fuse /\ f.multiFuse = "ok"
    THEN [body |-> <<"fused", f.kept>>, add |-> FALSE, cut |-> FALSE]
    ELSE [body |-> <<"compound", f.kept>>, add |-> FALSE, cut |-> FALSE]

FuseMessages(f) ==
    IF ~f.Fuse THEN {}
    ELSE CASE f.multiFuse = "invalid" -> {"Frame: multiFuse invalid, using compound."}
           [] f.multiFuse = "raises"  -> {"Frame: multiFuse failed"}
           [] OTHER                   -> {}

\* the branch of a Base with edges: the loop over the edges reads rot,
\* which is assigned only under "if obj.Align:", so that with Align false
\* the first pass raises UnboundLocalError
FrameExtruded(f) ==
    IF f.Profile = "Empty"
    THEN FrameLeft(f, {"Frame: Profile has no faces or wires."}, {"profile"}, "returned")
    ELSE IF f.kept = 0 THEN FrameLeft(f, {}, {"profile", "edges"}, "returned")
    ELSE IF ~f.Align THEN FrameLeft(f, {}, {"profile", "edges", "extrude"}, "raised")
    ELSE FrameStored(f, FrameFused(f), FuseMessages(f),
                     {"profile", "edges", "extrude"} \cup (IF f.Fuse THEN {"fuse"} ELSE {}))

\* _Frame.execute
FrameResult(f) ==
    IF f.Base = "None"
    THEN FrameLeft(f, {"Frame: Invalid or missing Base object."}, {}, "returned")
    ELSE IF f.Profile = "None"
    THEN FrameLeft(f, {"Frame: Invalid or missing Profile object."}, {}, "returned")
    ELSE IF f.CloneOf THEN FrameLeft(f, {}, {"clone"}, "returned")
    ELSE IF f.Base = "Solid"
    THEN FrameStored(f, [body |-> <<"base", 0>>, add |-> FALSE, cut |-> FALSE], {}, {})
    ELSE IF f.Base = "Bare"
    THEN FrameLeft(f, {"Frame: Base has no edges or solids; skipping."}, {}, "returned")
    ELSE FrameExtruded(f)

\* the document recomputes the frame
FrameExecute ==
    /\ frame' = FrameResult(frame)
    /\ UNCHANGED <<obj, face, kernel, Shape, console, ran, outcome, pre, arg, writes, seen,
                   loop, editor, dialog>>

(***************************************************************************)
(* SubdivisionPropertyEditor.  The editor is the record editor: open, the  *)
(* unit of the display and the value of every widget updateFeature reads.  *)
(* The values of the model are whole numbers of millimetres, which the     *)
(* spin boxes show and return as they are.                                 *)
(***************************************************************************)
\* QSpinBox.setRange(lo, hi) and setValue(v)
Clamp(v, lo, hi) == IF v < lo THEN lo ELSE IF v > hi THEN hi ELSE v

\* setRange(0.001, 10000) and setValue(v) of a spacing
ClampSpacing(v) == RMin(RMax(v, <<1, 1000>>), R(10000))

\* SubdivisionPropertyEditor.__init__: every widget is set from the
\* feature, but primarySpin, which is set to 500.0
EditorFor(o) ==
    [open |-> TRUE, localUnit |-> "mm",
     spacing_mode_combo |-> o.SpacingMode,
     primarySpin |-> R(500),
     divisions_spin |-> Clamp(o.Divisions, 1, 10000),
     offsetSpin |-> Clamp(o.StartOffset, -10000, 10000),
     hSpacingSpin |-> ClampSpacing(o.HorizontalSpacing),
     vSpacingSpin |-> ClampSpacing(o.VerticalSpacing),
     linkedCheck |-> o.LinkedSpacing,
     clip_offset_check |-> o.UseClipOffset,
     clip_offset_field |-> Clamp(o.ClipOffset, 0, 10000),
     diagonal_angle_spin |-> Clamp(o.DiagonalAngle, 0, 360),
     alternate_angle_check |-> o.UseAlternateAngle,
     alternate_angle_spin |-> Clamp(o.AlternateAngle, -360, 360),
     stagger_offset_spin |-> Clamp(o.StaggerOffset, -10000, 10000),
     stagger_direction_combo |-> o.StaggerDirection,
     pattern_seq_edit |-> o.PatternSequence,
     pattern_repeat_spin |-> Clamp(o.PatternRepeat, 1, 1000),
     fuseCheck |-> o.Fuse,
     flipHCheck |-> o.FlipHorizontal,
     flipVCheck |-> o.FlipVertical]

\* no editor has been made for the feature
NoEditor == [EditorFor(Constructed) EXCEPT !.open = FALSE]

\* the text updateFeature stores: "" for a text that is empty once stripped,
\* the numbers of the fields that are not blank, or the text as it is when
\* float() rejects a field
SequenceText(text) ==
    IF \A i \in 1..Len(text) : text[i][1] = "blank" THEN <<>>
    ELSE IF \E i \in 1..Len(text) : text[i][1] = "bad" THEN text
    ELSE SelectSeq(text, LAMBDA fld : fld[1] = "num")

\* if self.linkedCheck.isChecked(): self.vSpacingSpin.setValue(hSpacingSpin.value())
LinkedForced(e) == IF e.linkedCheck THEN [e EXCEPT !.vSpacingSpin = e.hSpacingSpin] ELSE e

\* the assignments of updateFeature, in their order
EditorWrites(e) ==
    <<<<"SpacingMode", e.spacing_mode_combo>>,
      <<"PrimarySpacing", e.primarySpin>>,
      <<"Divisions", e.divisions_spin>>,
      <<"StartOffset", e.offsetSpin>>,
      <<"ClipOffset", e.clip_offset_field>>,
      <<"UseClipOffset", e.clip_offset_check>>,
      <<"HorizontalSpacing", e.hSpacingSpin>>,
      <<"VerticalSpacing", e.vSpacingSpin>>,
      <<"LinkedSpacing", e.linkedCheck>>,
      <<"DiagonalAngle", e.diagonal_angle_spin>>,
      <<"UseAlternateAngle", e.alternate_angle_check>>,
      <<"AlternateAngle", e.alternate_angle_spin>>,
      <<"StaggerOffset", e.stagger_offset_spin>>,
      <<"StaggerDirection", e.stagger_direction_combo>>,
      <<"PatternSequence", SequenceText(e.pattern_seq_edit)>>,
      <<"PatternRepeat", e.pattern_repeat_spin>>,
      <<"FlipHorizontal", e.flipHCheck>>,
      <<"FlipVertical", e.flipVCheck>>>>

\* the feature after a run of execute on o with result r
FeatureAfter(o, r) == [obj |-> [o EXCEPT !.RotationAngle = r.RotationAngle], arg |-> o, r |-> r]

\* one run of execute on o, the shape before it being old
RunOn(o, f, k, old) ==
    CHOOSE after \in {FeatureAfter(o, r) : r \in {ExecuteResult(o, f, k, old)}} : TRUE

\* one assignment: onChanged runs execute after an assignment to a
\* property of its list
Assigned(st, prop, o2, f, k) ==
    IF prop \in OnChangedProps THEN RunOn(o2, f, k, st.r.Shape) ELSE [st EXCEPT !.obj = o2]

\* the assignments ws made one after the other
RECURSIVE Written(_, _, _, _)
Written(st, ws, f, k) ==
    IF ws = <<>> THEN st
    ELSE CHOOSE last \in
             {Written(next, Tail(ws), f, k) :
                 next \in {Assigned(st, ws[1][1], [st.obj EXCEPT ![ws[1][1]] = ws[1][2]], f, k)}} :
             TRUE

\* self.feature.recompute() at the end of updateFeature
Recomputed(st, f, k) == RunOn(st.obj, f, k, st.r.Shape)

\* the state of the feature as a record of Written
FeatureNow ==
    [obj |-> obj, arg |-> arg,
     r |-> [Shape |-> Shape, console |-> console, ran |-> ran, outcome |-> outcome,
            pre |-> pre, RotationAngle |-> obj.RotationAngle]]

\* the widgets e2 and the feature fin are the state after updateFeature;
\* the history of the runs is not extended
UpdatedTo(e2, fin) ==
    /\ editor' = e2
    /\ obj' = fin.obj
    /\ arg' = fin.arg
    /\ Shape' = fin.r.Shape
    /\ console' = fin.r.console
    /\ ran' = fin.r.ran
    /\ outcome' = fin.r.outcome
    /\ pre' = fin.r.pre
    /\ UNCHANGED <<face, kernel, writes, seen, loop, frame, dialog>>

\* updateFeature with the widgets e2, the vertical spacing already forced
UpdateLinked(e2) ==
    \E fin \in {Recomputed(Written(FeatureNow, EditorWrites(e2), face, kernel), face, kernel)} :
        UpdatedTo(e2, fin)

\* updateFeature with the widgets e
UpdateFeature(e) == \E e2 \in {LinkedForced(e)} : UpdateLinked(e2)

\* getCustomPropertyEditor: an editor is made for the feature
OpenEditor ==
    /\ ~editor.open
    /\ editor' = EditorFor(obj)
    /\ UNCHANGED <<obj, face, kernel, Shape, console, ran, outcome, pre, arg, writes, seen,
                   loop, frame, dialog>>

\* the widgets after one edit of the user that is connected to
\* updateFeature: the divisions spin box (valueChanged), the primary
\* spacing (editingFinished, also without a change), the spacing mode
\* (currentTextChanged), the linked and fuse check boxes (stateChanged)
Edits(e) ==
    {[e EXCEPT !.divisions_spin = d] : d \in (1..MaxDivisions) \ {e.divisions_spin}}
    \cup {[e EXCEPT !.primarySpin = p] : p \in {R(250), R(25), e.primarySpin}}
    \cup {[e EXCEPT !.spacing_mode_combo = m] :
             m \in {"Absolute Spacing", "Quantity Divisions"} \ {e.spacing_mode_combo}}
    \cup {[e EXCEPT !.linkedCheck = ~e.linkedCheck], [e EXCEPT !.fuseCheck = ~e.fuseCheck]}

\* the user edits a widget of the open editor
EditWidget ==
    /\ editor.open
    /\ \E e \in Edits(editor) : UpdateFeature(e)

(***************************************************************************)
(* SubdivisionDialog.  The dialog is the record dialog: state is "none",   *)
(* "open", "accepted", "rejected" or "closed"; preview_obj tells whether   *)
(* self.preview_obj is an object; temp, previews and generated count the   *)
(* objects named tempSubdivision, SubdivisionPreview and Subdivision in    *)
(* the document; mode, spacing and fuse are the widgets the model varies;  *)
(* Shape is the shape of the preview object.                               *)
(***************************************************************************)
MaxGenerate == 2

NoDialog ==
    [state |-> "none", featureToEdit |-> FALSE, preview_obj |-> FALSE, temp |-> 0,
     previews |-> 0, generated |-> 0, mode |-> "Horizontal", spacing |-> R(500),
     fuse |-> FALSE, Shape |-> NullShape]

\* the configuration updatePreview and generateGeometry write to a feature
\* on the first selected face, the other widgets being as initUI sets them
DialogConfig(d) ==
    [Constructed EXCEPT !.BaseFace = "Face", !.SubdivisionMode = d.mode,
                        !.PrimarySpacing = d.spacing, !.Fuse = d.fuse]

\* updatePreview: the temporary feature is added, written, recomputed and
\* removed; the preview object is added when there is none and takes the
\* shape
UpdatedPreview(d, f, k) ==
    LET added   == [d EXCEPT !.temp = d.temp + 1]
        shape   == ExecuteResult(DialogConfig(d), f, k, NullShape).Shape
        removed == [added EXCEPT !.temp = added.temp - 1]
    IN  [removed EXCEPT !.previews = IF removed.preview_obj THEN @ ELSE @ + 1,
                        !.preview_obj = TRUE,
                        !.Shape = shape]

\* SubdivisionDialog.__init__, which ends with updateModeOptions and so
\* with updatePreview
DialogFor(edits, f, k) ==
    UpdatedPreview([NoDialog EXCEPT !.state = "open", !.featureToEdit = edits], f, k)

\* a widget connected to updatePreview changes, or Preview is clicked
UpdatePreview(m, p, fu) ==
    /\ dialog.state = "open"
    /\ dialog' = UpdatedPreview([dialog EXCEPT !.mode = m, !.spacing = p, !.fuse = fu],
                                face, kernel)
    /\ UNCHANGED <<obj, face, kernel, Shape, console, ran, outcome, pre, arg, writes, seen,
                   loop, frame, editor>>

\* the feature being edited after generateGeometry has written it and the
\* document has recomputed it; the history of the runs is not extended
GeneratedOn(fin) ==
    /\ obj' = fin.obj
    /\ arg' = fin.arg
    /\ Shape' = fin.r.Shape
    /\ console' = fin.r.console
    /\ ran' = fin.r.ran
    /\ outcome' = fin.r.outcome
    /\ pre' = fin.r.pre
    /\ UNCHANGED <<seen, loop>>

\* Generate: the feature being edited, or a new one, is written and
\* recomputed; the answer Close to the question calls accept()
GenerateGeometry(answer) ==
    /\ dialog.state = "open"
    /\ dialog.featureToEdit \/ dialog.generated < MaxGenerate
    /\ dialog' = [dialog EXCEPT !.generated = IF dialog.featureToEdit THEN @ ELSE @ + 1,
                                !.state = IF answer = "Close" THEN "accepted" ELSE "open"]
    /\ UNCHANGED <<face, kernel, writes, frame, editor>>
    /\ IF dialog.featureToEdit
       THEN \E fin \in {RunOn(DialogConfig(dialog), face, kernel, Shape)} : GeneratedOn(fin)
       ELSE UNCHANGED <<obj, Shape, console, ran, outcome, pre, arg, seen, loop>>

\* the Close button: cancel_button.clicked is connected to reject, which
\* hides the dialog and sends no close event
RejectDialog ==
    /\ dialog.state = "open"
    /\ dialog' = [dialog EXCEPT !.state = "rejected"]
    /\ UNCHANGED <<obj, face, kernel, Shape, console, ran, outcome, pre, arg, writes, seen,
                   loop, frame, editor>>

\* the window is closed: closeEvent removes the preview object
CloseWindow ==
    /\ dialog.state = "open"
    /\ dialog' = [dialog EXCEPT !.state = "closed",
                                !.previews = IF dialog.preview_obj /\ @ > 0 THEN @ - 1 ELSE @,
                                !.preview_obj = FALSE]
    /\ UNCHANGED <<obj, face, kernel, Shape, console, ran, outcome, pre, arg, writes, seen,
                   loop, frame, editor>>

\* no frame, no editor and no dialog take part
Apart ==
    /\ frame = NoFrame
    /\ editor = NoEditor
    /\ dialog = NoDialog

(***************************************************************************)
(* Input sets.                                                             *)
(***************************************************************************)
Modes ==
    <<"Horizontal", "Vertical", "Crosshatch", "Diagonal/Herringbone", "Staggered/Offset Grid">>

LineModes == {"Horizontal", "Vertical", "Crosshatch", "Diagonal/Herringbone"}

\* a spacing inside the guard band of safe_div: exactly 1e-6
NearZero == <<1, SafeDivInv>>

Spacings == {R(0), NearZero, R(25), R(30), R(50), R(500)}

CrossSpacings == {R(0), R(25), R(30), R(50)}

Starts == {0, 10, 150, -25}

Faces == {RectFace(100, 100), RectFace(200, 100), RectFace(100, 60)}

Fields == {<<"num", 50>>, <<"num", 25>>, <<"num", 0>>, <<"blank", 0>>, <<"bad", 0>>}

Texts == UNION {[1..n -> Fields] : n \in 0..MaxSeqLen}

\* a run that does not end in practice: 10^8 and more lines or cells
Endless(o) ==
    /\ o.PrimarySpacing = NearZero
    /\ o.SpacingMode = "Absolute Spacing"
    /\ \/ o.SubdivisionMode = "Staggered/Offset Grid"
       \/ o.SubdivisionMode = "Diagonal/Herringbone" /\ o.UseAlternateAngle

Fresh ==
    /\ kernel = KernelOk
    /\ Shape = NullShape
    /\ console = {}
    /\ ran = {}
    /\ outcome = "none"
    /\ pre = <<>>
    /\ arg = Constructed
    /\ writes = 0
    /\ seen = {}
    /\ loop = Idle
    /\ Apart

(***************************************************************************)
(* Spec: the feature after construction, written to and recomputed by its  *)
(* host.                                                                   *)
(***************************************************************************)
Domain(prop) ==
    CASE prop = "BaseFace" -> {"None", "Face", "NotFound"}
      [] prop \in {"PrimarySpacing", "HorizontalSpacing", "VerticalSpacing"} -> {R(25), R(50), R(500)}
      [] prop = "Divisions" -> {3, 10}
      [] prop \in {"RotationAngle", "DiagonalAngle", "AlternateAngle"} -> {0, 90, 53, -53}
      [] prop = "RotationAxis" -> {"Z", "X"}
      [] prop \in {"StartOffset", "ClipOffset", "StaggerOffset"} -> {0, 2, 10}
      [] prop = "SpacingMode" -> {"Absolute Spacing", "Quantity Divisions"}
      [] prop = "SubdivisionMode" -> KnownModes
      [] prop = "AlignmentMode" -> {"Edge-to-Edge", "Center-outward"}
      [] prop = "StaggerDirection" -> {"Horizontal", "Vertical"}
      [] prop = "ReferenceLine" -> {<<>>, <<90>>}
      [] prop = "PatternSequence" -> {<<>>, <<<<"num", 50>>, <<"num", 25>>>>}
      [] prop = "PatternRepeat" -> {1, 2}
      [] OTHER -> BOOLEAN

Init ==
    /\ obj = Constructed
    /\ face \in {RectFace(100, 100), RectFace(200, 100)}
    /\ Fresh

Next ==
    \/ Recompute
    \/ \E prop \in DOMAIN Constructed : \E v \in Domain(prop) : Write(prop, v)

Spec == Init /\ [][Next]_vars

(***************************************************************************)
(* SpecResolver: execute applied to the configurations of the spacing      *)
(* computation (pattern sequence off).                                     *)
(***************************************************************************)
Aligns == {"Edge-to-Edge", "Center-outward"}

OnFace == [Constructed EXCEPT !.BaseFace = "Face"]

\* Absolute Spacing: primary spacing, alignment and start offset vary
AbsoluteConfigs ==
    {[OnFace EXCEPT !.SubdivisionMode = Modes[m], !.AlignmentMode = a,
                    !.PrimarySpacing = p, !.StartOffset = st, !.UseAlternateAngle = alt] :
        m \in 1..5, a \in Aligns, p \in Spacings, st \in Starts, alt \in BOOLEAN}

\* Quantity Divisions: the division count varies instead
QuantityConfigs ==
    {[OnFace EXCEPT !.SubdivisionMode = Modes[m], !.AlignmentMode = a,
                    !.SpacingMode = "Quantity Divisions",
                    !.Divisions = d, !.StartOffset = st, !.UseAlternateAngle = alt] :
        m \in 1..5, a \in Aligns, d \in 0..MaxDivisions, st \in Starts, alt \in BOOLEAN}

\* Crosshatch with its own spacings
UnlinkedConfigs ==
    {[OnFace EXCEPT !.SubdivisionMode = "Crosshatch", !.AlignmentMode = a,
                    !.LinkedSpacing = FALSE, !.PrimarySpacing = p, !.StartOffset = st,
                    !.HorizontalSpacing = h, !.VerticalSpacing = v] :
        a \in Aligns, p \in {R(25), R(500)}, st \in Starts,
        h \in CrossSpacings, v \in CrossSpacings}

\* Crosshatch, linked, with spacings of its own that must not matter
LinkedConfigs ==
    {[OnFace EXCEPT !.SubdivisionMode = "Crosshatch", !.AlignmentMode = a,
                    !.PrimarySpacing = p, !.StartOffset = st,
                    !.HorizontalSpacing = h, !.VerticalSpacing = R(30)] :
        a \in Aligns, p \in Spacings, st \in Starts, h \in {R(25), R(0)}}

\* the alternate angle is read by the diagonal generator alone
ResolverRelevant(o) ==
    /\ o.UseAlternateAngle => o.SubdivisionMode = "Diagonal/Herringbone"
    /\ ~Endless(o)

InitResolver ==
    /\ obj \in {o \in AbsoluteConfigs \cup QuantityConfigs \cup UnlinkedConfigs
                      \cup LinkedConfigs : ResolverRelevant(o)}
    /\ face \in Faces
    /\ Fresh

NextResolver == Recompute

SpecResolver == InitResolver /\ [][NextResolver]_vars

(***************************************************************************)
(* SpecQuantity: execute applied to the Quantity Divisions configurations  *)
(* of the three generators of straight U and V lines.                      *)
(***************************************************************************)
InitQuantity ==
    /\ obj \in {o \in QuantityConfigs :
                   /\ o.SubdivisionMode \in {"Horizontal", "Vertical", "Crosshatch"}
                   /\ ~o.UseAlternateAngle}
    /\ face \in Faces
    /\ Fresh

NextQuantity == Recompute

SpecQuantity == InitQuantity /\ [][NextQuantity]_vars

(***************************************************************************)
(* SpecStaggered: execute applied to Staggered/Offset Grid configurations  *)
(* with both stagger directions.                                           *)
(***************************************************************************)
StaggeredConfigs ==
    {[OnFace EXCEPT !.SubdivisionMode = "Staggered/Offset Grid", !.SpacingMode = sm,
                    !.PrimarySpacing = p, !.Divisions = d,
                    !.StaggerDirection = dir, !.StaggerOffset = so,
                    !.StartOffset = sa[1], !.AlignmentMode = sa[2]] :
        sm \in {"Absolute Spacing", "Quantity Divisions"}, p \in {R(30), R(50)},
        d \in 0..MaxDivisions, dir \in {"Horizontal", "Vertical"}, so \in {0, 10},
        sa \in {<<0, "Edge-to-Edge">>, <<10, "Center-outward">>}}

InitStaggered ==
    /\ obj \in {o \in StaggeredConfigs :
                   /\ o.SpacingMode = "Absolute Spacing" => o.Divisions = 0
                   /\ o.SpacingMode = "Quantity Divisions" => o.PrimarySpacing = R(50)}
    /\ face \in {RectFace(100, 60), RectFace(100, 100)}
    /\ Fresh

NextStaggered == Recompute

SpecStaggered == InitStaggered /\ [][NextStaggered]_vars

(***************************************************************************)
(* SpecFrame: _Frame.execute applied to the frames of the input set.       *)
(***************************************************************************)
Tools == {"None", "Ok", "Null", "Invalid", "Raises"}

FrameConfigs ==
    {[NoFrame EXCEPT !.Base = b, !.kept = n, !.Profile = pr, !.CloneOf = c, !.Align = al,
                     !.Fuse = fu, !.multiFuse = mf, !.AddTool = at, !.SubtractTool = st,
                     !.Placement = pl] :
        b \in {"None", "Bare", "Solid", "Edges"}, n \in 0..MaxEdges,
        pr \in {"None", "Empty", "Wires", "Faces"}, c \in BOOLEAN, al \in BOOLEAN,
        fu \in BOOLEAN, mf \in {"ok", "invalid", "raises"}, at \in Tools, st \in Tools,
        pl \in {"Origin", "Moved"}}

\* the feature of the other module takes no part
FeatureIdle ==
    /\ obj = Constructed
    /\ face = RectFace(100, 100)
    /\ kernel = KernelOk
    /\ Shape = NullShape
    /\ console = {}
    /\ ran = {}
    /\ outcome = "none"
    /\ pre = <<>>
    /\ arg = Constructed
    /\ writes = 0
    /\ seen = {}
    /\ loop = Idle

InitFrame ==
    /\ frame \in {f \in FrameConfigs :
                     /\ f.Base # "Edges" => f.kept = 0
                     /\ ~f.Fuse => f.multiFuse = "ok"}
    /\ editor = NoEditor
    /\ dialog = NoDialog
    /\ FeatureIdle

NextFrame == FrameExecute

SpecFrame == InitFrame /\ [][NextFrame]_vars

(***************************************************************************)
(* SpecEditor: a property editor is made for a feature and its widgets are *)
(* edited.                                                                 *)
(***************************************************************************)
EditorFeatures ==
    {[OnFace EXCEPT !.PrimarySpacing = p, !.Divisions = d, !.LinkedSpacing = l,
                    !.VerticalSpacing = R(30)] :
        p \in {R(250), R(500)}, d \in {0, 3}, l \in BOOLEAN}

InitEditor ==
    /\ obj \in EditorFeatures
    /\ face = RectFace(100, 100)
    /\ kernel = KernelOk
    /\ Shape = NullShape
    /\ console = {}
    /\ ran = {}
    /\ outcome = "none"
    /\ pre = <<>>
    /\ arg = Constructed
    /\ writes = 0
    /\ seen = {}
    /\ loop = Idle
    /\ Apart

NextEditor ==
    \/ OpenEditor
    \/ EditWidget

SpecEditor == InitEditor /\ [][NextEditor]_vars

(***************************************************************************)
(* SpecDialog: the dialog after its construction, its widgets changed, its *)
(* buttons clicked and its window closed.                                  *)
(***************************************************************************)
InitDialog ==
    /\ obj = OnFace
    /\ face \in {RectFace(100, 100), RectFace(100, 60)}
    /\ kernel = KernelOk
    /\ Shape = NullShape
    /\ console = {}
    /\ ran = {}
    /\ outcome = "none"
    /\ pre = <<>>
    /\ arg = Constructed
    /\ writes = 0
    /\ seen = {}
    /\ loop = Idle
    /\ frame = NoFrame
    /\ editor = NoEditor
    /\ dialog \in {DialogFor(edits, face, kernel) : edits \in BOOLEAN}

NextDialog ==
    \/ \E m \in KnownModes : \E p \in {R(500), R(50)} : \E fu \in BOOLEAN :
          UpdatePreview(m, p, fu)
    \/ \E answer \in {"Yes", "Close"} : GenerateGeometry(answer)
    \/ RejectDialog
    \/ CloseWindow

SpecDialog == InitDialog /\ [][NextDialog]_vars

(***************************************************************************)
(* SpecSequence: execute applied to the configurations of the pattern      *)
(* sequence.                                                               *)
(***************************************************************************)
SequenceConfigs ==
    {[OnFace EXCEPT !.SubdivisionMode = Modes[m], !.UsePatternSequence = u,
                    !.PatternSequence = t, !.PatternRepeat = r, !.StartOffset = st,
                    !.PrimarySpacing = R(50), !.UseAlternateAngle = alt] :
        m \in 1..4, u \in BOOLEAN, t \in Texts, r \in 0..MaxRepeat, st \in {0, 10},
        alt \in BOOLEAN}

InitSequence ==
    /\ obj \in {o \in SequenceConfigs : ResolverRelevant(o)}
    /\ face \in {RectFace(200, 200), RectFace(100, 200)}
    /\ Fresh

NextSequence == Recompute

SpecSequence == InitSequence /\ [][NextSequence]_vars

(***************************************************************************)
(* SpecExecute: execute applied to usable and unusable inputs, with and    *)
(* without a failing kernel.                                               *)
(***************************************************************************)
Kernels ==
    {KernelOk, [KernelOk EXCEPT !.fuseRaises = TRUE], [KernelOk EXCEPT !.commonRaises = TRUE],
     [KernelOk EXCEPT !.offsetRaises = TRUE]}

ExecuteConfigs ==
    {[Constructed EXCEPT !.BaseFace = b, !.SubdivisionMode = m, !.Fuse = fu,
                         !.FlipHorizontal = fh, !.UseClipOffset = co # 0, !.ClipOffset = co,
                         !.PrimarySpacing = p, !.StartOffset = st] :
        b \in {"None", "Malformed", "NoSub", "NotFound", "Face"},
        m \in KnownModes \cup {"Spiral"}, fu \in BOOLEAN, fh \in BOOLEAN,
        co \in {0, 10, 60}, p \in {R(500), R(50), R(0)}, st \in {0, 10}}

InitExecute ==
    /\ obj \in ExecuteConfigs
    /\ face \in {RectFace(100, 100), DiscFace(50)}
    /\ kernel \in Kernels
    /\ Shape = NullShape
    /\ console = {}
    /\ ran = {}
    /\ outcome = "none"
    /\ pre = <<>>
    /\ arg = Constructed
    /\ writes = 0
    /\ seen = {}
    /\ loop = Idle
    /\ Apart

NextExecute == Recompute

SpecExecute == InitExecute /\ [][NextExecute]_vars

(***************************************************************************)
(* SpecRepeat: a feature on a face, recomputed and written to, so that the *)
(* same configuration is run again after other runs.                       *)
(***************************************************************************)
RepeatConfigs ==
    {[OnFace EXCEPT !.SubdivisionMode = m, !.ReferenceLine = rl, !.PrimarySpacing = R(50)] :
        m \in {"Horizontal", "Crosshatch"}, rl \in {<<>>, <<90>>}}

RepeatProps == {"RotationAngle", "PrimarySpacing", "ReferenceLine", "Fuse"}

RepeatDomain(prop) ==
    CASE prop = "RotationAngle"  -> {0, 90, 53}
      [] prop = "PrimarySpacing" -> {R(50), R(25)}
      [] prop = "ReferenceLine"  -> {<<>>, <<90>>}
      [] prop = "Fuse"           -> BOOLEAN

InitRepeat ==
    /\ obj \in RepeatConfigs
    /\ face \in {RectFace(100, 100), RectFace(100, 60)}
    /\ Fresh

NextRepeat ==
    \/ Recompute
    \/ \E prop \in RepeatProps : \E v \in RepeatDomain(prop) : Write(prop, v)

SpecRepeat == InitRepeat /\ [][NextRepeat]_vars

(***************************************************************************)
(* SpecTransform: execute applied with rotation and flips, on a rectangle  *)
(* and on a triangle.                                                      *)
(***************************************************************************)
TransformConfigs ==
    {[OnFace EXCEPT !.SubdivisionMode = Modes[m], !.RotationAngle = r,
                    !.FlipHorizontal = fh, !.FlipVertical = fv,
                    !.PrimarySpacing = p, !.StartOffset = st] :
        m \in 1..5, r \in {0, 90, 53}, fh \in BOOLEAN, fv \in BOOLEAN,
        p \in {R(50), R(30)}, st \in {0, 10}}

InitTransform ==
    /\ obj \in TransformConfigs
    /\ face \in {RectFace(100, 60), TriFace(30)}
    /\ Fresh

NextTransform == Recompute

SpecTransform == InitTransform /\ [][NextTransform]_vars

(***************************************************************************)
(* SpecLoop: a pattern-sequence loop of a generator run pass by pass, and  *)
(* then the run of execute it belongs to.  FairLoop adds that a loop which *)
(* can make a pass does make it: the loop is sequential code.              *)
(***************************************************************************)
\* the texts of the loops: steps of 50 and of 0
LoopTexts == UNION {[1..n -> {<<"num", 50>>, <<"num", 0>>}] : n \in 1..MaxSeqLen}

LoopConfigs ==
    {[OnFace EXCEPT !.SubdivisionMode = Modes[m], !.UsePatternSequence = TRUE,
                    !.PatternSequence = t, !.PatternRepeat = r, !.StartOffset = st,
                    !.UseAlternateAngle = (m = 4)] :
        m \in 1..4, t \in LoopTexts, r \in (-1)..MaxRepeat, st \in {0, 10}}

\* the line families a mode builds with a pattern loop
LoopAxes(mode) ==
    CASE mode = "Horizontal" -> {"U"}
      [] mode = "Vertical"   -> {"V"}
      [] mode = "Crosshatch" -> {"U", "V"}
      [] mode = "Diagonal/Herringbone" -> {"D", "A"}

\* the interval a family is laid out over
AxisRange(o, f, axis) ==
    CASE axis = "U" -> <<Extent(f).min_x, Extent(f).max_x>>
      [] axis = "V" -> <<Extent(f).min_y, Extent(f).max_y>>
      [] axis = "D" -> <<SeqMin(Projections(f, o.DiagonalAngle)),
                         SeqMax(Projections(f, o.DiagonalAngle))>>
      [] axis = "A" -> <<SeqMin(Projections(f, o.AlternateAngle)),
                         SeqMax(Projections(f, o.AlternateAngle))>>

\* the loop the generator of o enters for one family
LoopOf(o, f, axis) ==
    LoopStart(IF o.SubdivisionMode = "Crosshatch" THEN "Mod" ELSE "GE", axis,
              RAdd(AxisRange(o, f, axis)[1], R(o.StartOffset)), AxisRange(o, f, axis)[2],
              pattern_list(o), o.PatternRepeat)

InitLoop ==
    /\ obj \in LoopConfigs
    /\ face = RectFace(200, 200)
    /\ loop \in {LoopOf(obj, face, a) : a \in LoopAxes(obj.SubdivisionMode)}
    /\ kernel = KernelOk
    /\ Shape = NullShape
    /\ console = {}
    /\ ran = {}
    /\ outcome = "none"
    /\ pre = <<>>
    /\ arg = Constructed
    /\ writes = 0
    /\ seen = {}
    /\ Apart

\* the loop tests its condition and makes one pass
LoopStep ==
    /\ ~loop.done
    /\ Len(loop.acc) < MaxLines
    /\ loop' = LoopPass(loop)
    /\ UNCHANGED <<obj, face, kernel, Shape, console, ran, outcome, pre, arg, writes, seen,
                   frame, editor, dialog>>

\* the loop is left, the generator returns and execute finishes
LoopReturn ==
    /\ loop.kind # "idle"
    /\ loop.done
    /\ outcome = "none"
    /\ Recompute

NextLoop == LoopStep \/ LoopReturn

SpecLoop == InitLoop /\ [][NextLoop]_vars

FairLoop == SpecLoop /\ WF_vars(LoopStep)

(***************************************************************************)
(* What the claims read off a state: the configuration of the last run of  *)
(* execute (arg), its construction lines (pre) and the stored Shape.       *)
(***************************************************************************)
Max(a, b) == IF a >= b THEN a ELSE b

\* the coordinates of the construction lines of one family, in order
Coords(fam) ==
    LET fl == SelectSeq(pre, LAMBDA r : r.fam = fam)
    IN  [i \in 1..Len(fl) |-> fl[i].c]

\* a line all of whose points have the same local x (U), or the same y (V)
ConstantU(w) == w[1][1] = w[2][1] /\ w[1][2] # w[2][2]

ConstantV(w) == w[1][2] = w[2][2] /\ w[1][1] # w[2][1]

Width == RSub(Extent(face).max_x, Extent(face).min_x)

Height == RSub(Extent(face).max_y, Extent(face).min_y)

Ran == outcome # "none"

\* the generator ran with the spacing computation (no pattern list)
PatternOff == pattern_list(arg) = <<>>

AbsoluteEdge ==
    /\ Ran
    /\ arg.BaseFace = "Face"
    /\ PatternOff
    /\ arg.SpacingMode = "Absolute Spacing"
    /\ arg.AlignmentMode = "Edge-to-Edge"

\* the spacing of the lines of constant U and of constant V: the primary
\* spacing, but in Crosshatch with linked spacing off the horizontal and
\* the vertical spacing
SpacingU ==
    IF arg.SubdivisionMode = "Crosshatch" /\ ~arg.LinkedSpacing
    THEN arg.HorizontalSpacing ELSE arg.PrimarySpacing

SpacingV ==
    IF arg.SubdivisionMode = "Crosshatch" /\ ~arg.LinkedSpacing
    THEN arg.VerticalSpacing ELSE arg.PrimarySpacing

\* max(0, floor((extentLength - startOffset) / s) + 1)
ClaimedCount(len, start, sp) == Max(0, RFloor(RDiv(RSub(len, R(start)), sp)) + 1)

\* the modes that build lines of constant U, and of constant V
BuildsU == arg.SubdivisionMode \in {"Horizontal", "Crosshatch"}

BuildsV == arg.SubdivisionMode \in {"Vertical", "Crosshatch"}

EvenlySpaced(cs, sp) == \A i \in 1..(Len(cs) - 1) : RSub(cs[i + 1], cs[i]) = sp

\* C6: in Crosshatch mode (Absolute Spacing, pattern sequence off) with
\* linked spacing set both line sets are spaced by the primary spacing,
\* whatever HorizontalSpacing and VerticalSpacing hold; with linked spacing
\* off the constant-U set is spaced by HorizontalSpacing and the constant-V
\* set by VerticalSpacing.  Edge-to-Edge, each set starts at its low edge
\* plus the start offset and has floor((length - start) / s) + 1 lines; on
\* the 100 x 100 square with start offset 0 and linked primary spacing 50
\* that is 3 lines per set, at the low edge, the middle and the high edge.
C6_CrosshatchSpacing ==
    /\ Ran
    /\ arg.BaseFace = "Face"
    /\ arg.SubdivisionMode = "Crosshatch"
    /\ arg.SpacingMode = "Absolute Spacing"
    /\ PatternOff
    => /\ outcome = "returned"
       /\ EvenlySpaced(Coords("U"), SpacingU)
       /\ EvenlySpaced(Coords("V"), SpacingV)
       /\ \A i \in 1..Len(pre) : pre[i].fam = "U" => ConstantU(pre[i].w)
       /\ \A i \in 1..Len(pre) : pre[i].fam = "V" => ConstantV(pre[i].w)
       /\ arg.AlignmentMode = "Edge-to-Edge" =>
             /\ GtInv(SpacingU, SafeDivInv)
                  => Len(Coords("U")) = ClaimedCount(Width, arg.StartOffset, SpacingU)
             /\ GtInv(SpacingV, SafeDivInv)
                  => Len(Coords("V")) = ClaimedCount(Height, arg.StartOffset, SpacingV)
             /\ Coords("U") # <<>>
                  => Coords("U")[1] = RAdd(Extent(face).min_x, R(arg.StartOffset))
             /\ Coords("V") # <<>>
                  => Coords("V")[1] = RAdd(Extent(face).min_y, R(arg.StartOffset))
       /\ /\ face = RectFace(100, 100)
          /\ arg.AlignmentMode = "Edge-to-Edge"
          /\ arg.StartOffset = 0
          /\ arg.LinkedSpacing
          /\ arg.PrimarySpacing = R(50)
          => /\ Coords("U") = <<R(-50), R(0), R(50)>>
             /\ Coords("V") = <<R(-50), R(0), R(50)>>

\* linked spacing 50 on the square, with a horizontal spacing of 25 and a
\* vertical spacing of 30 that do not show: 3 lines in each set
C6_Witness ==
    /\ Ran
    /\ arg.SubdivisionMode = "Crosshatch"
    /\ arg.SpacingMode = "Absolute Spacing"
    /\ arg.AlignmentMode = "Edge-to-Edge"
    /\ arg.LinkedSpacing
    /\ arg.PrimarySpacing = R(50)
    /\ arg.HorizontalSpacing = R(25)
    /\ arg.VerticalSpacing = R(30)
    /\ arg.StartOffset = 0
    /\ face = RectFace(100, 100)
    /\ Len(Coords("U")) = 3
    /\ Len(Coords("V")) = 3
    /\ Len(Shape.wires) = 6

\* every value has its mirror image about c in the list
Symmetric(cs, c) ==
    \A i \in 1..Len(cs) : \E j \in 1..Len(cs) : cs[j] = RSub(RMul(R(2), c), cs[i])

\* C2: for every Center-outward configuration (Absolute Spacing and
\* Quantity Divisions, every division count, even counts included) the
\* coordinates the spacing computation emits along an axis are symmetric
\* about the axis center (lo + hi) / 2.
C2_CenterOutwardSymmetric ==
    /\ Ran
    /\ arg.BaseFace = "Face"
    /\ PatternOff
    /\ arg.AlignmentMode = "Center-outward"
    /\ arg.SubdivisionMode \in {"Horizontal", "Vertical", "Crosshatch"}
    => /\ Symmetric(Coords("U"), center_local(Extent(face))[1])
       /\ Symmetric(Coords("V"), center_local(Extent(face))[2])

\* C4: with primary spacing 0 or near zero in Absolute Spacing mode and
\* pattern sequence off, every generator returns no line and execute stores
\* an empty result, for both alignment modes and every subdivision mode
\* (Crosshatch with linked spacing, where the primary spacing is read).
C4_ZeroSpacingEmpty ==
    /\ Ran
    /\ arg.BaseFace = "Face"
    /\ arg.SubdivisionMode \in KnownModes
    /\ ~arg.UsePatternSequence
    /\ arg.SpacingMode = "Absolute Spacing"
    /\ ~GtInv(arg.PrimarySpacing, SafeDivInv)
    /\ arg.SubdivisionMode = "Crosshatch" => arg.LinkedSpacing
    => /\ outcome = "returned"
       /\ pre = <<>>
       /\ Shape = EmptyCompound

\* C5: in Horizontal mode (rotation 0, no flip) every construction line has
\* a constant V coordinate and spans U, its values resolved over
\* [minV, maxV]; Vertical mode emits lines of constant U resolved over
\* [minU, maxU].  The stored segments run the same way.
C5_HorizontalConstantV ==
    /\ Ran
    /\ arg.BaseFace = "Face"
    /\ outcome = "returned"
    /\ arg.RotationAngle = 0
    /\ ~arg.FlipHorizontal /\ ~arg.FlipVertical
    => /\ arg.SubdivisionMode = "Horizontal" =>
            /\ \A i \in 1..Len(pre) : ConstantV(pre[i].w)
            /\ \A i \in 1..Len(Shape.wires) : ConstantV(Shape.wires[i])
       /\ arg.SubdivisionMode = "Vertical" =>
            /\ \A i \in 1..Len(pre) : ConstantU(pre[i].w)
            /\ \A i \in 1..Len(Shape.wires) : ConstantU(Shape.wires[i])

RECURSIVE Sum(_)
Sum(cs) == IF cs = <<>> THEN R(0) ELSE RAdd(cs[1], Sum(Tail(cs)))

\* the extent from lo to hi admits every step of repeat full cycles of pl:
\* the last of the len(pl) * repeat values is not beyond hi
AdmitsAll(lo, hi, pl, repeat) ==
    RLe(RSub(RAdd(RAdd(lo, R(arg.StartOffset)), RMul(R(repeat), Sum(pl))), pl[Len(pl)]), hi)

\* the projected extent of a diagonal family
MinProj(deg) == SeqMin(Projections(face, deg))

MaxProj(deg) == SeqMax(Projections(face, deg))

\* C1: pattern-sequence expansion with a sequence of length L >= 1 and repeat
\* count R >= 1, over an extent that admits every step, emits exactly L * R
\* coordinates in every generator that supports sequences (Horizontal,
\* Vertical, Crosshatch, Diagonal/Herringbone); sequence [50, 25], repeat
\* 2, start offset 0, extent length 200 emits exactly 4.
C1_FullCycles ==
    LET pl == pattern_list(arg)
        n  == Len(pl) * arg.PatternRepeat
        ex == Extent(face)
    IN  /\ Ran
        /\ arg.BaseFace = "Face"
        /\ pl # <<>>
        /\ arg.PatternRepeat >= 1
        /\ arg.StartOffset >= 0
        => /\ BuildsU /\ AdmitsAll(ex.min_x, ex.max_x, pl, arg.PatternRepeat)
                => Len(Coords("U")) = n
           /\ BuildsV /\ AdmitsAll(ex.min_y, ex.max_y, pl, arg.PatternRepeat)
                => Len(Coords("V")) = n
           /\ (/\ arg.SubdivisionMode = "Diagonal/Herringbone"
               /\ AdmitsAll(MinProj(arg.DiagonalAngle), MaxProj(arg.DiagonalAngle), pl,
                            arg.PatternRepeat))
                => Len(Coords("D")) = n
           /\ (/\ arg.SubdivisionMode = "Diagonal/Herringbone"
               /\ arg.UseAlternateAngle
               /\ AdmitsAll(MinProj(arg.AlternateAngle), MaxProj(arg.AlternateAngle), pl,
                            arg.PatternRepeat))
                => Len(Coords("A")) = n

\* C7: with pattern-sequence mode enabled and an empty sequence (empty text,
\* or text that fails to parse) the Horizontal, Vertical, Crosshatch and
\* Diagonal generators emit no lines.
C7_EmptySequenceNoLines ==
    /\ Ran
    /\ arg.BaseFace = "Face"
    /\ arg.SubdivisionMode \in LineModes
    /\ arg.UsePatternSequence
    /\ pattern_list(arg) = <<>>
    => /\ pre = <<>>
       /\ Shape = EmptyCompound

\* the steps after the dispatch and the generators themselves
LaterSteps == KnownModes \cup {"flip", "clipoffset", "fuse"}

\* C8: when fuse is set and the union (or the splitter removal) fails,
\* execute stores the unfused collection of wires, reports the failure and
\* returns normally.
C8_FuseFallback ==
    /\ Ran
    /\ arg.Fuse
    /\ kernel.fuseRaises
    /\ "fuse" \in ran
    => /\ outcome = "returned"
       /\ Shape.kind = "Compound"
       /\ Shape.wires # <<>>
       /\ console # {}

\* C9: for each invalid input (BaseFace None, BaseFace that cannot be
\* unpacked, empty sub-element list, linked face not found, subdivision
\* mode not one of the five) execute stores an empty result, reports an
\* error (naming the mode when the mode is unrecognised) and returns
\* without running a generator, the flip, the clip offset or the fuse.
C9_InvalidInputRefused ==
    /\ Ran
    /\ arg.BaseFace # "Face" \/ arg.SubdivisionMode \notin KnownModes
    => /\ outcome = "returned"
       /\ Shape = EmptyCompound
       /\ pre = <<>>
       /\ ran \cap LaterSteps = {}
       /\ arg.BaseFace = "None" => console = {"No base face defined."}
       /\ arg.BaseFace = "Malformed" => console = {"BaseFace property malformed."}
       /\ arg.BaseFace = "NoSub" => console = {"No base face sub-element."}
       /\ arg.BaseFace = "NotFound" => console = {"Could not find the linked face."}
       /\ arg.BaseFace = "Face"
            => "Unsupported subdivision mode: " \o arg.SubdivisionMode \in console

\* an empty list of sub-elements, with fuse and flip requested
C9_Witness ==
    /\ Ran
    /\ arg.BaseFace = "NoSub"
    /\ arg.SubdivisionMode = "Crosshatch"
    /\ arg.Fuse
    /\ arg.FlipHorizontal
    /\ Shape = EmptyCompound
    /\ console = {"No base face sub-element."}

\* C10: when the region has fewer than 3 vertices, local-frame construction
\* reports the failure and execute stores an empty pattern; no generator is
\* run and no exception is raised.
C10_DegenerateRegionRefused ==
    /\ Ran
    /\ arg.BaseFace = "Face"
    /\ arg.SubdivisionMode \in KnownModes
    /\ Len(face.Vertexes) < 3
    => /\ outcome = "returned"
       /\ Shape = EmptyCompound
       /\ ran \cap KnownModes = {}
       /\ console # {}

\* C17: every pattern-sequence loop (Horizontal, Vertical, both Crosshatch
\* sets, both Diagonal families) is left after finitely many passes, for
\* every non-empty parsed sequence, steps of 0 included, and every repeat
\* count, 0 and negative counts included; it builds fewer than MaxLines
\* lines, and the run of execute it belongs to returns with exactly the
\* lines of the loop in that family.
C17_LoopsTerminate ==
    /\ <>(loop.done)
    /\ [](Len(loop.acc) < MaxLines)
    /\ [](outcome # "none" => outcome = "returned" /\ Coords(loop.axis) = loop.acc)

\* a Crosshatch loop over two steps of 0 with budget 3 is left after 6 lines
C17_Witness ==
    /\ loop.kind = "Mod"
    /\ loop.pl = <<R(0), R(0)>>
    /\ loop.from[2] = 3
    /\ loop.done
    /\ Len(loop.acc) = 6
    /\ outcome = "returned"

\* a Horizontal loop with a negative budget is left after its first cycle
C17_WitnessNegative ==
    /\ loop.kind = "GE"
    /\ loop.pl = <<R(0), R(50)>>
    /\ loop.from[2] = -1
    /\ loop.done
    /\ Len(loop.acc) = 2
    /\ outcome = "returned"

\* C11: two runs of execute with the same face and the same configuration
\* (a set ReferenceLine included) end the same way and store the same
\* segments, whatever runs were made in between.
C11_Deterministic ==
    \A a \in seen : \A b \in seen :
        (a.o = b.o /\ a.face = b.face)
            => (a.outcome = b.outcome /\ (a.outcome = "returned" => a.Shape = b.Shape))

\* the configuration with a reference line and rotation 0 was run, then
\* another configuration, then the first again: same non-empty result
C11_Witness ==
    \E a \in seen : \E b \in seen :
        /\ a.o = b.o
        /\ a.o.ReferenceLine = <<90>>
        /\ a.o.RotationAngle = 0
        /\ b.at >= a.at + 2
        /\ a.outcome = "returned"
        /\ a.Shape.wires # <<>>
        /\ a.Shape = b.Shape

\* the configuration of the last run with one or both flips alone
OnlyFlips(h, v) == [arg EXCEPT !.FlipHorizontal = h, !.FlipVertical = v]

\* the wires execute stores for the configuration of the last run without
\* its flips
Unflipped == ExecuteResult(OnlyFlips(FALSE, FALSE), face, kernel, NullShape).Shape.wires

\* the flip laws on a list of segments w whose unflipped form is u
FlipLaws(w, u) ==
    /\ Flipped(OnlyFlips(TRUE, FALSE), Flipped(OnlyFlips(TRUE, FALSE), w)) = w
    /\ Flipped(OnlyFlips(FALSE, TRUE), Flipped(OnlyFlips(FALSE, TRUE), w)) = w
    /\ Flipped(OnlyFlips(TRUE, FALSE), Flipped(OnlyFlips(FALSE, TRUE), w))
         = Flipped(OnlyFlips(FALSE, TRUE), Flipped(OnlyFlips(TRUE, FALSE), w))
    /\ Flipped(OnlyFlips(TRUE, FALSE), Flipped(OnlyFlips(FALSE, TRUE), w))
         = Flipped(OnlyFlips(TRUE, TRUE), w)
    /\ Flipped(arg, w) = u

\* C12: the flip is self-inverse: the horizontal flip applied twice to the
\* stored segments returns them, and so does the vertical flip; the two
\* flips commute and together are the flip with both flags; the segments
\* execute stores with flips set, flipped once more, are the segments it
\* stores without them.
C12_FlipSelfInverse ==
    /\ Ran
    /\ arg.BaseFace = "Face"
    /\ outcome = "returned"
    /\ ~arg.UseClipOffset
    => FlipLaws(Shape.wires, Unflipped)

\* a horizontal flip on the triangle that moved the stored segments
C12_Witness ==
    /\ Ran
    /\ outcome = "returned"
    /\ face = TriFace(30)
    /\ arg.SubdivisionMode = "Horizontal"
    /\ arg.FlipHorizontal
    /\ ~arg.FlipVertical
    /\ "flip" \in ran
    /\ Shape.wires # <<>>
    /\ Shape.wires # Unflipped
    /\ Flipped(arg, Shape.wires) = Unflipped

\* p is inside the closed convex region f or on its boundary
InRegion(f, p) ==
    \A i \in 1..Len(f.poly) :
        Cross(VSub(f.poly[(i % Len(f.poly)) + 1], f.poly[i]), VSub(p, f.poly[i]))[1] >= 0

\* C13: every segment execute stores has both end points inside the region
\* or on its boundary, for every mode, rotation and flip, also on a region
\* that is not symmetric about its centre of mass.
C13_SegmentsInsideRegion ==
    /\ Ran
    /\ arg.BaseFace = "Face"
    /\ outcome = "returned"
    => \A i \in 1..Len(Shape.wires) :
          InRegion(face, Shape.wires[i][1]) /\ InRegion(face, Shape.wires[i][2])

\* the construction lines of the configuration of the last run at rotation 0
Unrotated ==
    Generate([arg EXCEPT !.RotationAngle = 0], face, kernel, pattern_list(arg)).pre

\* the segment seg lies on the line through a and b
Collinear(seg, a, b) ==
    /\ Cross(VSub(b, a), VSub(seg[1], a))[1] = 0
    /\ Cross(VSub(b, a), VSub(seg[2], a))[1] = 0

\* seg lies on an edge of one of the construction lines cons, turned by deg
\* about the centre of the extent
OnTurnedLine(seg, cons, deg) ==
    \E j \in 1..Len(cons) : \E e \in 1..(Len(cons[j].w) - 1) :
        Collinear(seg, RotateAbout(cons[j].w[e], center_local(Extent(face)), deg),
                       RotateAbout(cons[j].w[e + 1], center_local(Extent(face)), deg))

\* C19: for a rotation angle r every stored segment (no flip, no clip
\* offset) lies on a construction line of the r = 0 pattern turned by
\* exactly r about the centre of the extent, in each of the five modes, and
\* lies inside the region: it was clipped after the last rotation.
C19_RotatedOnce ==
    /\ Ran
    /\ arg.BaseFace = "Face"
    /\ outcome = "returned"
    /\ arg.SubdivisionMode \in KnownModes
    /\ ~arg.FlipHorizontal /\ ~arg.FlipVertical
    /\ ~arg.UseClipOffset
    /\ ~kernel.commonRaises
    => \A i \in 1..Len(Shape.wires) :
          /\ OnTurnedLine(Shape.wires[i], Unrotated, arg.RotationAngle)
          /\ InRegion(face, Shape.wires[i][1])
          /\ InRegion(face, Shape.wires[i][2])

\* C20: when the clip offset is enabled with a non-zero value and the
\* offset boundary is built, every stored segment lies within the offset
\* boundary; when no generated segment meets the offset boundary the stored
\* result is empty.
C20_WithinOffsetBoundary ==
    /\ Ran
    /\ arg.BaseFace = "Face"
    /\ face.kind = "poly"
    /\ outcome = "returned"
    /\ "clipoffset" \in ran
    /\ ~ClipOffsetFails(arg, face, kernel)
    /\ ~kernel.commonRaises
    => \A i \in 1..Len(Shape.wires) :
          /\ InRegion(OffsetFace(face, arg.ClipOffset), Shape.wires[i][1])
          /\ InRegion(OffsetFace(face, arg.ClipOffset), Shape.wires[i][2])

\* C14: execute treats the configuration as read-only: after a run every
\* property whose write starts a run holds the value the run was given.
C14_ConfigurationReadOnly ==
    Ran => \A prop \in OnChangedProps : obj[prop] = arg[prop]

\* C15: a write to any configuration property, UsePatternSequence and Fuse
\* included, makes onChanged request a recompute: once a property has been
\* written, the last run of execute was given the configuration the object
\* holds (but for the RotationAngle a ReferenceLine puts in its place).
C15_EveryWriteRecomputes ==
    writes > 0 =>
        \A prop \in DOMAIN Constructed : prop # "RotationAngle" => obj[prop] = arg[prop]

\* C16: whenever a generator returns no line because the spacing or the
\* cell size is zero or near zero (Absolute Spacing, pattern sequence off),
\* a diagnostic message is reported, in each of the five generators.
C16_ZeroSpacingReported ==
    /\ Ran
    /\ arg.BaseFace = "Face"
    /\ arg.SubdivisionMode \in KnownModes
    /\ PatternOff
    /\ arg.SpacingMode = "Absolute Spacing"
    /\ ~GtInv(arg.PrimarySpacing, SafeDivInv)
    /\ arg.SubdivisionMode = "Crosshatch" => arg.LinkedSpacing
    /\ outcome = "returned"
    /\ pre = <<>>
    => console # {}

\* the lines of constant U come before the lines of constant V
UThenV ==
    \A i \in 1..Len(pre) : \A j \in 1..Len(pre) :
        (pre[i].fam = "U" /\ pre[j].fam = "V") => i < j

\* C18: for every Crosshatch configuration with linked spacing and rotation
\* 0 (pattern sequence on or off, any repeat count) the coordinates of the
\* constant-U set are the list buildHorizontalPattern computes and those of
\* the constant-V set the list buildVerticalPattern computes for the same
\* configuration, and the first set comes before the second.
C18_CrosshatchIsBoth ==
    /\ Ran
    /\ arg.BaseFace = "Face"
    /\ arg.SubdivisionMode = "Crosshatch"
    /\ arg.LinkedSpacing
    /\ arg.RotationAngle = 0
    => /\ Coords("U") = HorizontalCoords(arg, Extent(face), pattern_list(arg))
       /\ Coords("V") = VerticalCoords(arg, Extent(face), pattern_list(arg))
       /\ UThenV

\* the Edge-to-Edge computation as the specification states it, over [lo, hi]
ClaimedEdgeCoords(o, lo, hi) ==
    LET first == RAdd(lo, R(o.StartOffset))
        n     == Max(o.Divisions, 1)
    IN  IF o.SpacingMode = "Absolute Spacing"
        THEN Steps(first, o.PrimarySpacing,
                   RFloor(RDiv(RSub(hi, first), o.PrimarySpacing)) + 1)
        ELSE IF n > 1 THEN Steps(first, RDiv(RSub(hi, first), R(n - 1)), n)
        ELSE <<first>>

\* C21: in Diagonal/Herringbone mode (pattern sequence off) the coordinates
\* of each family are the Edge-to-Edge computation over that family's own
\* projected extent: first value minProj + startOffset, Absolute count
\* floor((maxProj - first) / s) + 1, Quantity step (maxProj - first) /
\* (count - 1), for the primary and the alternate family and every start
\* offset.
C21_DiagonalIsEdgeToEdge ==
    /\ Ran
    /\ arg.BaseFace = "Face"
    /\ arg.SubdivisionMode = "Diagonal/Herringbone"
    /\ PatternOff
    /\ (arg.SpacingMode = "Absolute Spacing" => GtInv(arg.PrimarySpacing, SafeDivInv))
    => /\ Coords("D") = ClaimedEdgeCoords(arg, MinProj(arg.DiagonalAngle),
                                          MaxProj(arg.DiagonalAngle))
       /\ arg.UseAlternateAngle
            => Coords("A") = ClaimedEdgeCoords(arg, MinProj(arg.AlternateAngle),
                                               MaxProj(arg.AlternateAngle))

QuantityEdge ==
    /\ Ran
    /\ arg.BaseFace = "Face"
    /\ PatternOff
    /\ arg.SpacingMode = "Quantity Divisions"
    /\ arg.AlignmentMode = "Edge-to-Edge"

\* max(divisionCount, 1) values from lo + startOffset, evenly spaced up to hi
EdgeQuantityLaw(cs, lo, hi) ==
    LET n     == Max(arg.Divisions, 1)
        first == RAdd(lo, R(arg.StartOffset))
    IN  /\ Len(cs) = n
        /\ cs[1] = first
        /\ n > 1 => /\ EvenlySpaced(cs, RDiv(RSub(hi, first), R(n - 1)))
                    /\ cs[n] = hi

\* C22: in Quantity Divisions mode with Edge-to-Edge alignment the number of
\* coordinates is max(divisionCount, 1), the first is lo + startOffset and,
\* for a count above 1, the values are evenly spaced with step
\* (hi - first) / (count - 1), the last being hi, in the Horizontal, the
\* Vertical and both Crosshatch line sets.
C22_QuantityEdgeToEdge ==
    QuantityEdge =>
        /\ BuildsU => EdgeQuantityLaw(Coords("U"), Extent(face).min_x, Extent(face).max_x)
        /\ BuildsV => EdgeQuantityLaw(Coords("V"), Extent(face).min_y, Extent(face).max_y)

\* 3 divisions from start offset 10 on a face 100 wide and 60 high
C22_Witness ==
    /\ QuantityEdge
    /\ arg.SubdivisionMode = "Crosshatch"
    /\ arg.Divisions = 3
    /\ arg.StartOffset = 10
    /\ Coords("U") = <<R(-40), R(5), R(50)>>
    /\ Coords("V") = <<R(-20), R(5), R(30)>>

QuantityCenter ==
    /\ Ran
    /\ arg.BaseFace = "Face"
    /\ PatternOff
    /\ arg.SpacingMode = "Quantity Divisions"
    /\ arg.AlignmentMode = "Center-outward"

\* the number of values of cs below c, and above c
Below(cs, c) == Cardinality({i \in 1..Len(cs) : cs[i] # c /\ RLe(cs[i], c)})

Above(cs, c) == Cardinality({i \in 1..Len(cs) : cs[i] # c /\ RLe(c, cs[i])})

\* count values center - step * (count // 2) + i * step, i from 0
CenterQuantityLaw(cs, lo, hi) ==
    LET n      == Max(arg.Divisions, 1)
        range  == RSub(hi, lo)
        step   == IF n > 1 THEN RDiv(range, R(n - 1)) ELSE range
        center == RDiv(RAdd(lo, hi), R(2))
    IN  /\ Len(cs) = n
        /\ \A i \in 1..n :
              cs[i] = RAdd(RSub(center, RMul(step, R(n \div 2))), RMul(R(i - 1), step))
        /\ n % 2 = 0 => Below(cs, center) = Above(cs, center) + 1

\* C23: in Quantity Divisions mode with Center-outward alignment the count
\* is max(divisionCount, 1), the step range / (count - 1) for a count above
\* 1 (else range) and the values are center - step * (count // 2) + i * step
\* with floor division, so that an even count has one more value below the
\* center than above it; the start offset is not used.
C23_CenterOutwardFloorBias ==
    QuantityCenter =>
        /\ BuildsU => CenterQuantityLaw(Coords("U"), Extent(face).min_x, Extent(face).max_x)
        /\ BuildsV => CenterQuantityLaw(Coords("V"), Extent(face).min_y, Extent(face).max_y)

\* 4 divisions on a face 100 wide, with a start offset that changes nothing
C23_Witness ==
    /\ QuantityCenter
    /\ arg.SubdivisionMode = "Horizontal"
    /\ arg.Divisions = 4
    /\ arg.StartOffset = 10
    /\ Width = R(100)
    /\ Coords("U") = <<RDiv(R(-200), R(3)), RDiv(R(-100), R(3)), R(0), RDiv(R(100), R(3))>>

\* the cell size as the specification states it
ClaimedCellSize ==
    IF arg.SpacingMode = "Absolute Spacing" THEN arg.PrimarySpacing
    ELSE RDiv(RMin(Width, Height), R(Max(arg.Divisions, 1)))

\* the origin of the cell in row i, column j (both from 0)
ClaimedOrigin(i, j) ==
    LET c == ClaimedCellSize
    IN  Pt(RAdd(RAdd(Extent(face).min_x, RMul(R(j), c)),
                IF arg.StaggerDirection = "Horizontal" /\ i % 2 = 1
                THEN R(arg.StaggerOffset) ELSE R(0)),
           RAdd(RAdd(Extent(face).min_y, RMul(R(i), c)),
                IF arg.StaggerDirection = "Vertical" /\ j % 2 = 1
                THEN R(arg.StaggerOffset) ELSE R(0)))

\* the closed polygon of four edges of side c from the origin p
SquareFrom(w, p, c) ==
    /\ Len(w) = 5
    /\ w[1] = p
    /\ w[2] = Pt(RAdd(p[1], c), p[2])
    /\ w[3] = Pt(RAdd(p[1], c), RAdd(p[2], c))
    /\ w[4] = Pt(p[1], RAdd(p[2], c))
    /\ w[5] = w[1]

\* C24: Staggered/Offset Grid uses a square cell of size c (Absolute: the
\* primary spacing; Quantity: the shorter bounding side / max(divisions, 1)),
\* tiles floor(width / c) + 1 columns by floor(height / c) + 1 rows from
\* (minU, minV), shifts the U origin of the odd rows by the stagger offset
\* (direction Horizontal) or the V origin of the odd columns (direction
\* Vertical), leaves the even ones unshifted and builds one closed polygon
\* of four edges per cell; start offset and alignment mode have no effect.
C24_StaggeredGrid ==
    /\ Ran
    /\ arg.BaseFace = "Face"
    /\ arg.SubdivisionMode = "Staggered/Offset Grid"
    /\ ClaimedCellSize[1] > 0
    => LET c    == ClaimedCellSize
           cols == RFloor(RDiv(Width, c)) + 1
           rows == RFloor(RDiv(Height, c)) + 1
       IN  /\ Len(pre) = rows * cols
           /\ \A i \in 0..(rows - 1) : \A j \in 0..(cols - 1) :
                 SquareFrom(pre[i * cols + j + 1].w, ClaimedOrigin(i, j), c)

\* 2 divisions on a face 100 x 60: cells of 30, 4 columns by 3 rows, the
\* second column shifted up by 10
C24_Witness ==
    /\ Ran
    /\ arg.SubdivisionMode = "Staggered/Offset Grid"
    /\ arg.SpacingMode = "Quantity Divisions"
    /\ arg.Divisions = 2
    /\ arg.StaggerDirection = "Vertical"
    /\ arg.StaggerOffset = 10
    /\ arg.AlignmentMode = "Center-outward"
    /\ Width = R(100) /\ Height = R(60)
    /\ Len(pre) = 12
    /\ pre[1].w[1] = Pt(R(-50), R(-30))
    /\ pre[2].w[1] = Pt(R(-20), R(-20))

Unlinked ==
    /\ Ran
    /\ arg.BaseFace = "Face"
    /\ arg.SubdivisionMode = "Crosshatch"
    /\ ~arg.LinkedSpacing
    /\ arg.SpacingMode = "Absolute Spacing"
    /\ PatternOff

\* C25: in Crosshatch with linked spacing off and Absolute Spacing, when one
\* of HorizontalSpacing and VerticalSpacing is 0 and the other is positive,
\* the set of the zero spacing has no line and the set of the other axis
\* has all its lines.
C25_OtherAxisStillEmitted ==
    /\ (Unlinked /\ arg.HorizontalSpacing = R(0) /\ GtInv(arg.VerticalSpacing, SafeDivInv))
          => /\ Coords("U") = <<>>
             /\ Coords("V") = CrosshatchCoords(arg, Extent(face).min_y, Extent(face).max_y,
                                               arg.VerticalSpacing, <<>>)
    /\ (Unlinked /\ arg.VerticalSpacing = R(0) /\ GtInv(arg.HorizontalSpacing, SafeDivInv))
          => /\ Coords("V") = <<>>
             /\ Coords("U") = CrosshatchCoords(arg, Extent(face).min_x, Extent(face).max_x,
                                               arg.HorizontalSpacing, <<>>)

\* n values, all of them in [lo, hi]
AllWithin(cs, n, lo, hi) ==
    /\ Len(cs) = n
    /\ \A i \in 1..Len(cs) : RLe(lo, cs[i]) /\ RLe(cs[i], hi)

\* C26: in Quantity Divisions mode with start offset 0 and division count
\* N >= 1, all N coordinates computed along an axis lie within the extent
\* [lo, hi], for both alignment modes and for even as well as odd N.
C26_QuantityWithinExtent ==
    /\ Ran
    /\ arg.BaseFace = "Face"
    /\ PatternOff
    /\ arg.SpacingMode = "Quantity Divisions"
    /\ arg.StartOffset = 0
    /\ arg.Divisions >= 1
    => /\ BuildsU => AllWithin(Coords("U"), arg.Divisions,
                               Extent(face).min_x, Extent(face).max_x)
       /\ BuildsV => AllWithin(Coords("V"), arg.Divisions,
                               Extent(face).min_y, Extent(face).max_y)

\* C27: _Frame.execute completes and stores a shape for both values of
\* Align: with Align false and a Base with at least one edge the profile
\* copies are positioned and extruded without raising.
C27_AlignFalseCompletes ==
    /\ frame.outcome # "none"
    /\ frame.Base = "Edges"
    /\ frame.kept >= 1
    /\ frame.Profile \in {"Wires", "Faces"}
    /\ ~frame.CloneOf
    => /\ frame.outcome = "returned"
       /\ "store" \in frame.ran
       /\ frame.Shape # OldFrameShape

\* the shape of a frame before the tool steps
FrameBody(f) ==
    IF f.Base = "Solid" THEN <<"base", 0>>
    ELSE IF f.Fuse /\ f.multiFuse = "ok" THEN <<"fused", f.kept>>
    ELSE <<"compound", f.kept>>

\* C29: in a run of _Frame.execute that reaches the tool steps, a failure
\* of the AddTool step leaves the shape as it was before the step and the
\* SubtractTool step is still attempted, a failure of the SubtractTool step
\* leaves the shape as it was before it, execute ends by storing the shape
\* and restoring the placement, and when Fuse is set and multiFuse raises or
\* gives an invalid shape the body is the compound of all extrusions.
C29_ToolFailuresFallBack ==
    [][(frame' # frame /\ "tools" \in frame'.ran) =>
          /\ frame'.outcome = "returned"
          /\ "store" \in frame'.ran
          /\ frame'.Placement = frame.Placement
          /\ frame'.Shape.body = FrameBody(frame)
          /\ frame'.Shape.add = (frame.AddTool = "Ok")
          /\ frame'.Shape.cut = (frame.SubtractTool = "Ok")
          /\ frame.AddTool # "None" => "addtool" \in frame'.ran
          /\ frame.SubtractTool # "None" => "subtracttool" \in frame'.ran]_vars

\* AddTool raises, SubtractTool cuts, the fused shape of two extrusions is
\* invalid: the compound, cut, at the placement of the object
C29_Witness ==
    /\ frame.outcome = "returned"
    /\ frame.AddTool = "Raises"
    /\ frame.SubtractTool = "Ok"
    /\ frame.Fuse
    /\ frame.multiFuse = "invalid"
    /\ frame.kept = 2
    /\ frame.Placement = "Moved"
    /\ frame.Shape = [body |-> <<"compound", 2>>, add |-> FALSE, cut |-> TRUE]
    /\ frame.console = {"Frame: multiFuse invalid, using compound.", "AddTool failed"}
    /\ {"addtool", "subtracttool", "store"} \subseteq frame.ran

\* C28: updateFeature changes only the fields whose widget was edited: an
\* update the primary spacing widget did not start and during which that
\* widget keeps its value leaves PrimarySpacing as it was.
C28_UnrelatedEditKeepsSpacing ==
    [][(editor.open /\ editor'.open /\ editor' # editor
          /\ editor'.primarySpin = editor.primarySpin)
          => obj'.PrimarySpacing = obj.PrimarySpacing]_vars

\* C30: the document never holds a tempSubdivision object between the
\* handlers of the dialog and holds at most one preview object, and once the
\* dialog is dismissed (reject, accept or close event) it holds none.
C30_PreviewLifecycle ==
    /\ dialog.temp = 0
    /\ dialog.previews <= 1
    /\ dialog.state \in {"rejected", "accepted", "closed"} => dialog.previews = 0

====
